---- MODULE Spec2Model ----
(***************************************************************************)
(* A model of the celerity runtime: the buffer transfer manager, the       *)
(* command graph, the command-graph generator and the executor loop.       *)
(*                                                                         *)
(* Specifications:                                                         *)
(*   SpecBTM   the buffer transfer manager of every node, driven by push   *)
(*             and await-push jobs and by poll(), in every interleaving.   *)
(*   SpecCG    the command_graph container under arbitrary create,         *)
(*             add_dependency and remove_dependency calls.                 *)
(*   SpecPairs the command_graph container with push and await-push        *)
(*             commands, under create and add_dependency calls.            *)
(*   SpecGen   build_command_graph, one task per step, for every number    *)
(*             of nodes and every sequence of satisfied tasks.             *)
(*   SpecRun   TEST_do_work: the master builds the graph and dispatches    *)
(*             it, the executor loops of all nodes run interleaved.        *)
(*                                                                         *)
(* Where an operator hands an intermediate value on, it binds the value    *)
(* through a one-element set, CHOOSE r \in {e : x \in {v}} : TRUE, which   *)
(* is e with x standing for v.                                             *)
(***************************************************************************)
EXTENDS Integers, Sequences, FiniteSets, Bags, TLC

\* ------------------------------------------------------------------ bounds
\* Number of push / await-push pairs of the transfer-manager specification.
MaxPush == 2
\* Number of commands the command-graph specification creates.
MaxCmds == 2
\* Cap on pseudo_critical_path_length in the command-graph specification.
MaxPath == 2

\* The number of nodes and of tasks of SpecRun at most.
RunNodes == 2
RunTasks == 2

\* The number of commands and of dependency edges a graph of SpecPairs holds at most.
MaxPairCmds == 3
MaxEdges == 2
\* Largest number of nodes (MPI world size).
MaxNodes == 3
\* Number of tasks the queue holds.
MaxTasks == 2
\* Size of the (one-dimensional) buffers and of the tasks' global range.
BufSize == 2
\* SpecSplit: the largest number of nodes and the largest extent of a global range
\* in one dimension.
MaxSplitNodes == 5
MaxRange == 4
\* SpecOverwrite: the number of tasks the queue holds.
MaxChain == 3
\* SpecTwoBuffers: the number of tasks the queue holds.
MaxTwoBufferTasks == 2
\* SpecOrder: the tasks of the task graph the generator traverses.
MaxOrderTasks == 3

VARIABLES
    btm,        \* per node: the buffer_transfer_manager (and the transfer handles it shares)
    data_net,   \* data-transfer messages posted with MPI_Isend and not yet matched by MPI_Improbe
    jobs,       \* per node: the job list of the executor
    failed,     \* an assertion of the program has failed (the process aborts)
    cdag,       \* the command graph
    num_nodes,  \* runtime::num_nodes
    task_graph, \* the tasks build_command_graph has obtained, by task id
    valid_buffer_regions,   \* runtime::valid_buffer_regions: the buffer_state of every buffer
    build_done, \* get_satisfied_task has returned false: the command graph is complete
    task_chunks,    \* the subranges split_equal returned to process_compute_task
    ndebug,     \* the build defines NDEBUG: assert(e) expands to nothing, e is not evaluated
    cmd_queue,  \* per node: the command packages sent to it and not yet received
                \* (master_commands for node 0)
    exec,       \* per node: the executor's done flag, whether it has left its loop, and
                \* the number of shutdown commands it has received
    trace       \* history: the packages the dispatcher shipped, the commands whose job
                \* reported done, and what had reported done when each job was started

btmVars == <<btm, data_net, jobs>>
genVars == <<num_nodes, task_graph, valid_buffer_regions, build_done, task_chunks, ndebug>>
runVars == <<cmd_queue, exec, trace>>

vars == <<btm, data_net, jobs, failed, cdag, num_nodes, task_graph, valid_buffer_regions,
          build_done, task_chunks, ndebug, cmd_queue, exec, trace>>

\* ------------------------------------------------------------- small helpers
\* A map with the entry of key k erased.
Without(f, k) == [x \in (DOMAIN f) \ {k} |-> f[x]]

RECURSIVE SeqOfSet(_)
\* A set of integers as the increasing sequence of its elements.
SeqOfSet(S) ==
    IF S = {} THEN <<>>
    ELSE LET m == CHOOSE x \in S : \A y \in S : x <= y
         IN  <<m>> \o SeqOfSet(S \ {m})

\* --------------------------------------------------- buffer transfer manager
\* transfer_in::header of a transfer that is not there (a null unique_ptr).
NoTransfer == [bid |-> -1, subrange |-> <<0, 0>>, push_cid |-> -1]

\* The state of a freshly constructed buffer_transfer_manager. handles is the heap of
\* transfer_handle / incoming_transfer_handle objects the shared_ptrs point into;
\* buffer_writes is the bag of headers handed to runtime::set_buffer_data; observed is
\* the set of push_cids whose completed receipt update_incoming_transfers has seen.
EmptyBtm ==
    [incoming_transfers |-> <<>>,
     outgoing_transfers |-> <<>>,
     push_blackboard    |-> [c \in {} |-> 0],
     handles            |-> [h \in {} |-> 0],
     buffer_writes      |-> EmptyBag,
     observed           |-> {}]

\* No handle (a job that has not asked for one).
NoHandle == <<-1, 0>>

\* The address of a freshly made handle object: none of the heap's addresses. It is
\* named after the command id it is made for and the number of handles made for that
\* id before.
FreshHandle(b, cid) ==
    <<cid, Cardinality({h \in DOMAIN b.handles : h[1] = cid})>>

NewHandle(b, h, complete, transfer) ==
    (h :> [complete |-> complete, transfer |-> transfer]) @@ b.handles

\* buffer_transfer_manager::write_data_to_buffer
write_data_to_buffer(b, header) ==
    [b EXCEPT !.buffer_writes = @ (+) SetToBag({header})]

\* buffer_transfer_manager::poll_transfers, when MPI_Improbe has matched message msg.
poll_transfers(b, msg) ==
    [b EXCEPT !.incoming_transfers = Append(@, msg.header)]

\* buffer_transfer_manager::push: <<the manager afterwards, the handle returned>>.
push(b, pkg) ==
    LET t_handle == FreshHandle(b, pkg.cid)
        header   == [bid |-> pkg.bid, subrange |-> pkg.subrange, push_cid |-> pkg.cid]
    IN  <<[b EXCEPT !.handles = NewHandle(b, t_handle, FALSE, NoTransfer),
                    !.outgoing_transfers = Append(@, [header |-> header, handle |-> t_handle,
                                                      target |-> pkg.target])],
          t_handle>>

\* A plausible slip in await_push: the blackboard entry is not erased.
await_push_keeps_entry(b, pkg) ==
    IF pkg.source_cid \in DOMAIN b.push_blackboard
    THEN LET t_handle == b.push_blackboard[pkg.source_cid]
             transfer == b.handles[t_handle].transfer
             ok       == /\ transfer # NoTransfer
                         /\ transfer.bid = pkg.bid
                         /\ transfer.subrange = pkg.subrange
         IN  <<[write_data_to_buffer(b, transfer)
                    EXCEPT !.handles[t_handle].transfer = NoTransfer],
               t_handle, ok>>
    ELSE LET t_handle == FreshHandle(b, pkg.source_cid)
         IN  <<[b EXCEPT !.handles = NewHandle(b, t_handle, FALSE, NoTransfer),
                         !.push_blackboard = (pkg.source_cid :> t_handle) @@ @],
               t_handle, TRUE>>

\* A plausible slip in await_push: the handle made for a transfer that has not
\* arrived is marked complete.
await_push_complete_at_once(b, pkg) ==
    IF pkg.source_cid \in DOMAIN b.push_blackboard
    THEN LET t_handle == b.push_blackboard[pkg.source_cid]
             transfer == b.handles[t_handle].transfer
             ok       == /\ transfer # NoTransfer
                         /\ transfer.bid = pkg.bid
                         /\ transfer.subrange = pkg.subrange
         IN  <<[write_data_to_buffer(b, transfer)
                    EXCEPT !.push_blackboard = Without(@, pkg.source_cid),
                           !.handles[t_handle].transfer = NoTransfer],
               t_handle, ok>>
    ELSE LET t_handle == FreshHandle(b, pkg.source_cid)
         IN  <<[b EXCEPT !.handles = NewHandle(b, t_handle, TRUE, NoTransfer),
                         !.push_blackboard = (pkg.source_cid :> t_handle) @@ @],
               t_handle, TRUE>>

\* buffer_transfer_manager::await_push:
\* <<the manager afterwards, the handle returned, whether the three assertions held>>.
await_push(b, pkg) ==
    IF pkg.source_cid \in DOMAIN b.push_blackboard
    THEN LET t_handle == b.push_blackboard[pkg.source_cid]
             transfer == b.handles[t_handle].transfer
             ok       == /\ transfer # NoTransfer
                         /\ transfer.bid = pkg.bid
                         /\ transfer.subrange = pkg.subrange
         IN  <<[write_data_to_buffer(b, transfer)
                    EXCEPT !.push_blackboard = Without(@, pkg.source_cid),
                           !.handles[t_handle].transfer = NoTransfer],
               t_handle, ok>>
    ELSE LET t_handle == FreshHandle(b, pkg.source_cid)
         IN  <<[b EXCEPT !.handles = NewHandle(b, t_handle, FALSE, NoTransfer),
                         !.push_blackboard = (pkg.source_cid :> t_handle) @@ @],
               t_handle, TRUE>>

\* A plausible slip: complete is set only on a handle somebody waits on.
complete_incoming_leaving_parked(b, header) ==
    LET seen == [b EXCEPT !.observed = @ \cup {header.push_cid}]
    IN  IF header.push_cid \in DOMAIN b.push_blackboard
        THEN LET t_handle == b.push_blackboard[header.push_cid]
             IN  [write_data_to_buffer(seen, header)
                     EXCEPT !.push_blackboard = Without(@, header.push_cid),
                            !.handles[t_handle].complete = TRUE]
        ELSE LET t_handle == FreshHandle(b, header.push_cid)
             IN  [seen EXCEPT !.handles = NewHandle(b, t_handle, FALSE, header),
                              !.push_blackboard = (header.push_cid :> t_handle) @@ @]

\* A plausible slip: a transfer nobody waits for is written to the buffer when it is
\* parked.
complete_incoming_writing_parked(b, header) ==
    LET seen == [b EXCEPT !.observed = @ \cup {header.push_cid}]
    IN  IF header.push_cid \in DOMAIN b.push_blackboard
        THEN LET t_handle == b.push_blackboard[header.push_cid]
             IN  [write_data_to_buffer(seen, header)
                     EXCEPT !.push_blackboard = Without(@, header.push_cid),
                            !.handles[t_handle].complete = TRUE]
        ELSE LET t_handle == FreshHandle(b, header.push_cid)
             IN  [write_data_to_buffer(seen, header)
                     EXCEPT !.handles = NewHandle(b, t_handle, TRUE, header),
                            !.push_blackboard = (header.push_cid :> t_handle) @@ @]

\* The body of update_incoming_transfers' loop for a transfer whose MPI_Test flag is 1.
complete_incoming(b, header) ==
    LET seen == [b EXCEPT !.observed = @ \cup {header.push_cid}]
    IN  IF header.push_cid \in DOMAIN b.push_blackboard
        THEN LET t_handle == b.push_blackboard[header.push_cid]
             IN  [write_data_to_buffer(seen, header)
                     EXCEPT !.push_blackboard = Without(@, header.push_cid),
                            !.handles[t_handle].complete = TRUE]
        ELSE LET t_handle == FreshHandle(b, header.push_cid)
             IN  [seen EXCEPT !.handles = NewHandle(b, t_handle, TRUE, header),
                              !.push_blackboard = (header.push_cid :> t_handle) @@ @]

RECURSIVE update_incoming_from(_, _, _, _)
update_incoming_from(b, transfers, i, flags) ==
    IF i > Len(transfers) THEN b
    ELSE IF i \in flags
         THEN update_incoming_from(complete_incoming(b, transfers[i]), transfers, i + 1, flags)
         ELSE update_incoming_from(
                  [b EXCEPT !.incoming_transfers = Append(@, transfers[i])],
                  transfers, i + 1, flags)

\* buffer_transfer_manager::update_incoming_transfers; flags holds the positions of the
\* transfers whose MPI_Test reports completion.
update_incoming_transfers(b, flags) ==
    update_incoming_from([b EXCEPT !.incoming_transfers = <<>>], b.incoming_transfers, 1, flags)

\* A plausible slip: a completed send marks its handle but stays in the list.
update_outgoing_transfers_keeping(b, flags) ==
    [b EXCEPT !.handles =
        [h \in DOMAIN b.handles |->
            IF \E i \in flags \cap DOMAIN b.outgoing_transfers :
                   b.outgoing_transfers[i].handle = h
            THEN [b.handles[h] EXCEPT !.complete = TRUE]
            ELSE b.handles[h]]]

RECURSIVE update_outgoing_from(_, _, _, _)
update_outgoing_from(b, transfers, i, flags) ==
    IF i > Len(transfers) THEN b
    ELSE IF i \in flags
         THEN update_outgoing_from(
                  [b EXCEPT !.handles[transfers[i].handle].complete = TRUE],
                  transfers, i + 1, flags)
         ELSE update_outgoing_from(
                  [b EXCEPT !.outgoing_transfers = Append(@, transfers[i])],
                  transfers, i + 1, flags)

\* buffer_transfer_manager::update_outgoing_transfers; flags as above.
update_outgoing_transfers(b, flags) ==
    update_outgoing_from([b EXCEPT !.outgoing_transfers = <<>>], b.outgoing_transfers, 1, flags)

\* Messages MPI_Improbe may match at node n.
Arrived(n) == {m \in data_net : m.dst = n}

\* buffer_transfer_manager::poll at node n. probe is the set with the message
\* MPI_Improbe matched (empty when its flag is 0); in_flags and out_flags are the
\* positions MPI_Test reports complete.
poll(n, probe, in_flags, out_flags) ==
    LET b1 == IF probe = {} THEN btm[n]
              ELSE poll_transfers(btm[n], CHOOSE m \in probe : TRUE)
        b2 == update_incoming_transfers(b1, in_flags)
    IN  update_outgoing_transfers(b2, out_flags)

Probes(n) == {{}} \cup {{m} : m \in Arrived(n)}

PollChoices(n) ==
    {<<p, i, o>> : p \in Probes(n),
                   i \in SUBSET (1 .. (Len(btm[n].incoming_transfers) + 1)),
                   o \in SUBSET (1 .. Len(btm[n].outgoing_transfers))}

\* ---------------------------------------------------------------------- jobs
\* A job as the executor holds it: the command package, whether its first update()
\* has run, the transfer handle it holds and whether is_done() holds.
NewJob(pkg) == [pkg |-> pkg, started |-> FALSE, handle |-> NoHandle, done |-> FALSE]

\* push_job::update on the manager b: the manager and the job afterwards, the
\* messages posted and whether every assertion held.
push_job_update(b, job, n) ==
    IF ~job.started
    THEN LET r == push(b, job.pkg)
         IN  [btm  |-> r[1],
              job  |-> [job EXCEPT !.started = TRUE, !.handle = r[2]],
              sent |-> {[src |-> n, dst |-> job.pkg.target,
                         header |-> [bid |-> job.pkg.bid, subrange |-> job.pkg.subrange,
                                     push_cid |-> job.pkg.cid]]},
              ok   |-> TRUE]
    ELSE [btm |-> b, job |-> [job EXCEPT !.done = b.handles[job.handle].complete],
          sent |-> {}, ok |-> TRUE]

\* await_push_job::update on the manager b.
await_push_job_update(b, job, n) ==
    IF ~job.started
    THEN LET r == await_push(b, job.pkg)
         IN  [btm  |-> r[1],
              job  |-> [job EXCEPT !.started = TRUE, !.handle = r[2]],
              sent |-> {}, ok |-> r[3]]
    ELSE [btm |-> b, job |-> [job EXCEPT !.done = b.handles[job.handle].complete],
          sent |-> {}, ok |-> TRUE]

\* compute_job::update and master_access_job::update: the first update launches the
\* work; every update tests its completion flag, which is complete.
execution_job_update(b, job, complete) ==
    [btm |-> b, job |-> [job EXCEPT !.started = TRUE, !.done = complete],
     sent |-> {}, ok |-> TRUE]

\* push_job::update at node n for the job at position i of the job list.
UpdatePushJob(n, i) ==
    \E r \in {push_job_update(btm[n], jobs[n][i], n)} :
        /\ btm' = [btm EXCEPT ![n] = r.btm]
        /\ jobs' = [jobs EXCEPT ![n][i] = r.job]
        /\ data_net' = data_net \cup r.sent
        /\ UNCHANGED failed

\* await_push_job::update at node n for the job at position i of the job list.
UpdateAwaitPushJob(n, i) ==
    \E r \in {await_push_job_update(btm[n], jobs[n][i], n)} :
        /\ btm' = [btm EXCEPT ![n] = r.btm]
        /\ jobs' = [jobs EXCEPT ![n][i] = r.job]
        /\ failed' = (failed \/ ~r.ok)
        /\ UNCHANGED data_net

\* ------------------------------------------------------------- command graph
Max(S) == CHOOSE x \in S : \A y \in S : y <= x

\* command_data of a command without payload.
NoData == [bid |-> -1, box |-> {}, target |-> -1, source_cid |-> -1]

\* The command kinds that are task_commands (indexed in by_task).
TaskCommandKinds == {"COMPUTE", "MASTER_ACCESS"}

\* A freshly constructed command_graph over the nodes ns.
EmptyGraph(ns) ==
    [next_cmd_id      |-> 0,
     commands         |-> [c \in {} |-> 0],
     by_task          |-> [t \in {} |-> <<>>],
     execution_fronts |-> [n \in ns |-> {}],
     max_pseudo_critical_path_length |-> 0]

\* command_graph::create<T>(nid, tid, data): the graph afterwards; the new command's
\* cid is g.next_cmd_id. writes holds the "Write" entries of the command's label.
create(g, kind, nid, tid, data) ==
    LET cid == g.next_cmd_id
        cmd == [cid |-> cid, nid |-> nid, kind |-> kind, tid |-> tid, data |-> data,
                writes |-> {}, dependencies |-> {}, pseudo_critical_path_length |-> 0]
    IN  [g EXCEPT
            !.next_cmd_id = cid + 1,
            !.commands = (cid :> cmd) @@ @,
            !.by_task = IF kind \in TaskCommandKinds
                        THEN (tid :> Append(IF tid \in DOMAIN @ THEN @[tid] ELSE <<>>, cid)) @@ @
                        ELSE @,
            !.execution_fronts[nid] = IF kind # "NOP" THEN @ \cup {cid} ELSE @]

\* A plausible slip: the check that both commands belong to one node is missing.
add_dependency_allowed_any_node(g, depender, dependee) ==
    dependee # depender

\* A plausible slip: the check that a command does not depend on itself is missing.
add_dependency_allowed_self(g, depender, dependee) ==
    g.commands[depender].nid = g.commands[dependee].nid

\* The two assertions of command_graph::add_dependency.
add_dependency_allowed(g, depender, dependee) ==
    /\ g.commands[depender].nid = g.commands[dependee].nid
    /\ dependee # depender

\* abstract_command::add_dependency: the dependency list and the pseudo critical path
\* length of the depender.
cmd_add_dependency(g, depender, dependee, is_anti) ==
    [g.commands[depender] EXCEPT
        !.dependencies = @ \cup {[cid |-> dependee, is_anti |-> is_anti]},
        !.pseudo_critical_path_length =
            Max({@, g.commands[dependee].pseudo_critical_path_length + 1})]

\* command_graph::add_dependency, its assertions passed.
add_dependency(g, depender, dependee, is_anti) ==
    LET cmd == cmd_add_dependency(g, depender, dependee, is_anti)
    IN  [g EXCEPT
            !.commands[depender] = cmd,
            !.execution_fronts[g.commands[depender].nid] = @ \ {dependee},
            !.max_pseudo_critical_path_length = Max({@, cmd.pseudo_critical_path_length})]

\* A variant that recomputes the maximum from the commands that still have a
\* dependency when an edge is removed.
remove_dependency_recomputing(g, depender, dependee) ==
    LET removed == [g EXCEPT !.commands[depender].dependencies = {d \in @ : d.cid # dependee}]
    IN  [removed EXCEPT
            !.max_pseudo_critical_path_length =
                Max({0} \cup {removed.commands[c].pseudo_critical_path_length :
                                 c \in {x \in DOMAIN removed.commands :
                                            removed.commands[x].dependencies # {}}})]

\* command_graph::remove_dependency
remove_dependency(g, depender, dependee) ==
    [g EXCEPT !.commands[depender].dependencies = {d \in @ : d.cid # dependee}]

\* command_graph::get_execution_front
get_execution_front(g, nid) == g.execution_fronts[nid]

\* The dependency edges <<depender, dependee>> of graph g.
Edges(g) ==
    UNION {{<<c, d.cid>> : d \in g.commands[c].dependencies} : c \in DOMAIN g.commands}

\* The commands that depend on command c.
Dependents(g, c) == {x \in DOMAIN g.commands : \E d \in g.commands[x].dependencies : d.cid = c}

RECURSIVE ReachableFrom(_, _, _)
\* The commands reachable from the set S along dependency edges, S included.
ReachableFrom(g, S, seen) ==
    LET next == {d.cid : d \in UNION {g.commands[c].dependencies : c \in S}} \ (seen \cup S)
    IN  IF next = {} THEN seen \cup S ELSE ReachableFrom(g, next, seen \cup S)

\* Command c lies on a dependency cycle.
OnCycle(g, c) ==
    c \in ReachableFrom(g, {d.cid : d \in g.commands[c].dependencies}, {})

\* --------------------------------------------------------------- buffer state
\* The ids of the buffers registered with the runtime.
Buffers == DOMAIN valid_buffer_regions

\* The order in which the loops over a chunk's requirement map visit the buffers.
BufferOrder == SeqOfSet(Buffers)

\* The index space of a buffer, and of a task's global range.
Indices == 0 .. (BufSize - 1)

\* detail::buffer_state after construction: no index has been written.
EmptyBufferState == [i \in Indices |-> {}]

\* buffer_state::update_region: region is valid on exactly nodes afterwards.
update_region(bs, region, nodes) ==
    [i \in Indices |-> IF i \in region THEN nodes ELSE bs[i]]

\* The boxes of a region whose indices all carry the tag tag[i]: its maximal
\* intervals of equal tag, as sets of indices.
BoxOf(region, tag, i) ==
    {j \in region : /\ tag[j] = tag[i]
                    /\ \A k \in Indices : (k > j /\ k < i) \/ (k > i /\ k < j)
                                             => (k \in region /\ tag[k] = tag[i])}

\* buffer_state::get_source_nodes: the boxes tiling the valid part of region, each
\* with the nodes holding it, ordered by lower corner.
get_source_nodes(bs, region) ==
    LET valid == {i \in region : bs[i] # {}}
        lows  == {i \in valid : \A j \in BoxOf(valid, bs, i) : i <= j}
        cover(i) == [box |-> BoxOf(valid, bs, i), nodes |-> bs[i]]
        order == SeqOfSet(lows)
    IN  [k \in 1 .. Len(order) |-> cover(order[k])]

\* The assertion of get_source_nodes: every index of region is covered.
source_nodes_covered(bs, region) == \A i \in region : bs[i] # {}

\* ------------------------------------------------------------ graph generator
\* split_equal for subrange<1> with the remainder of the division dropped.
split_equal_without_remainder(size, num_chunks) ==
    [i \in 1 .. num_chunks |->
        [start |-> (i - 1) * (size \div num_chunks),
         range |-> (size \div num_chunks)]]

\* split_equal for subrange<1>: the chunks as [start, range].
split_equal(size, num_chunks) ==
    [i \in 1 .. num_chunks |->
        [start |-> (i - 1) * (size \div num_chunks),
         range |-> (size \div num_chunks)
                   + (IF i = num_chunks THEN size % num_chunks ELSE 0)]]

\* split_equal for subrange<1>, on subranges [start, range, global_size] whose fields
\* are tuples with one entry per dimension.
split_equal_1(sr, num_chunks) ==
    LET rows == split_equal(sr.range[1], num_chunks)
    IN  [i \in 1 .. num_chunks |->
            [start |-> <<rows[i].start>>, range |-> <<rows[i].range>>,
             global_size |-> sr.global_size]]

\* split_equal for subrange<2>: the rows are split, every chunk keeps all columns.
split_equal_2(sr, num_chunks) ==
    LET rows == split_equal_1([start |-> <<sr.start[1]>>, range |-> <<sr.range[1]>>,
                               global_size |-> <<sr.global_size[1]>>], num_chunks)
    IN  [i \in 1 .. Len(rows) |->
            [start |-> <<rows[i].start[1], sr.start[2]>>,
             range |-> <<rows[i].range[1], sr.range[2]>>,
             global_size |-> sr.global_size]]

\* What a range mapper maps a chunk to, clamped to the buffer
\* (detail::subrange_to_grid_region).
map_1(rm, chunk) ==
    IF rm = "one_to_one"
    THEN {i \in Indices : chunk.start <= i /\ i < chunk.start + chunk.range}
    ELSE Indices

\* chunk_requirements[i][bid][mode] merged with region.
MergeRequirement(reqs, i, bid, mode, region) ==
    LET of_chunk  == IF i \in DOMAIN reqs THEN reqs[i] ELSE [b \in {} |-> 0]
        of_buffer == IF bid \in DOMAIN of_chunk THEN of_chunk[bid] ELSE [m \in {} |-> {}]
        old       == IF mode \in DOMAIN of_buffer THEN of_buffer[mode] ELSE {}
    IN  (i :> ((bid :> ((mode :> (old \cup region)) @@ of_buffer)) @@ of_chunk)) @@ reqs

RECURSIVE RequirementsFrom(_, _, _)
\* The loops of process_compute_task over the range mappers and the chunks: accs is
\* the sequence of <<chunk id, accessor>> pairs in loop order.
RequirementsFrom(reqs, accs, chunks) ==
    IF accs = <<>> THEN reqs
    ELSE LET i  == Head(accs)[1]
             rm == Head(accs)[2]
         IN  CHOOSE r \in
                 {RequirementsFrom(merged, rest, chunks) :
                     merged \in {MergeRequirement(reqs, i, rm.bid, rm.mode,
                                                  map_1(rm.rm, chunks[i + 1]))},
                     rest \in {Tail(accs)}} : TRUE

RECURSIVE SeqOfAccessors(_)
SeqOfAccessors(S) ==
    IF S = {} THEN <<>>
    ELSE LET a == CHOOSE x \in S : TRUE IN <<a>> \o SeqOfAccessors(S \ {a})

RECURSIVE set_intersection(_, _)
\* std::set_intersection of two sorted sequences.
set_intersection(a, b) ==
    IF a = <<>> \/ b = <<>> THEN <<>>
    ELSE IF Head(a) < Head(b) THEN set_intersection(Tail(a), b)
    ELSE IF Head(b) < Head(a) THEN set_intersection(a, Tail(b))
    ELSE <<Head(a)>> \o set_intersection(Tail(a), Tail(b))

\* A plausible slip: the node a chunk gets is not erased from free_nodes.
assign_for_buffer_without_erase(st, i, bid, chunk_reqs, vbr) ==
    LET req      == chunk_reqs[i][bid]
        has_read == "read" \in DOMAIN req
        sn       == IF has_read THEN get_source_nodes(vbr[bid], req["read"]) ELSE <<>>
        read_ok  == has_read => (sn # <<>> /\ source_nodes_covered(vbr[bid], req["read"]))
        source_nodes == IF has_read /\ sn # <<>> THEN sn[1].nodes ELSE {}
        sources  == IF has_read
                    THEN (i :> ((bid :> sn) @@ (IF i \in DOMAIN st.chunk_buffer_sources
                                                THEN st.chunk_buffer_sources[i]
                                                ELSE [b \in {} |-> <<>>])))
                         @@ st.chunk_buffer_sources
                    ELSE st.chunk_buffer_sources
        intersection == set_intersection(SeqOfSet(st.free_nodes), SeqOfSet(source_nodes))
        nid      == IF source_nodes # {} /\ intersection # <<>>
                    THEN intersection[1]
                    ELSE Head(SeqOfSet(st.free_nodes))
    IN  IF ~st.ok \/ ~read_ok THEN [st EXCEPT !.ok = FALSE]
        ELSE IF st.node_assigned THEN [st EXCEPT !.chunk_buffer_sources = sources]
        ELSE IF st.free_nodes = {} THEN [st EXCEPT !.ok = FALSE]
        ELSE [st EXCEPT !.chunk_buffer_sources = sources,
                        !.node_assigned = TRUE,
                        !.chunk_nodes = (i :> nid) @@ @]

\* A plausible slip: the chunk gets the first free node, whatever the source nodes.
assign_for_buffer_first_free(st, i, bid, chunk_reqs, vbr) ==
    LET req      == chunk_reqs[i][bid]
        has_read == "read" \in DOMAIN req
        sn       == IF has_read THEN get_source_nodes(vbr[bid], req["read"]) ELSE <<>>
        read_ok  == has_read => (sn # <<>> /\ source_nodes_covered(vbr[bid], req["read"]))
        sources  == IF has_read
                    THEN (i :> ((bid :> sn) @@ (IF i \in DOMAIN st.chunk_buffer_sources
                                                THEN st.chunk_buffer_sources[i]
                                                ELSE [b \in {} |-> <<>>])))
                         @@ st.chunk_buffer_sources
                    ELSE st.chunk_buffer_sources
        nid      == Head(SeqOfSet(st.free_nodes))
    IN  IF ~st.ok \/ ~read_ok THEN [st EXCEPT !.ok = FALSE]
        ELSE IF st.node_assigned THEN [st EXCEPT !.chunk_buffer_sources = sources]
        ELSE IF st.free_nodes = {} THEN [st EXCEPT !.ok = FALSE]
        ELSE [st EXCEPT !.chunk_buffer_sources = sources,
                        !.node_assigned = TRUE,
                        !.free_nodes = @ \ {nid},
                        !.chunk_nodes = (i :> nid) @@ @]

\* The body of assign_chunks_to_nodes' loop over the buffers of chunk i. st holds
\* free_nodes, chunk_nodes, chunk_buffer_sources, node_assigned and whether every
\* assertion so far held.
assign_for_buffer(st, i, bid, chunk_reqs, vbr) ==
    LET req      == chunk_reqs[i][bid]
        has_read == "read" \in DOMAIN req
        sn       == IF has_read THEN get_source_nodes(vbr[bid], req["read"]) ELSE <<>>
        read_ok  == has_read => (sn # <<>> /\ source_nodes_covered(vbr[bid], req["read"]))
        source_nodes == IF has_read /\ sn # <<>> THEN sn[1].nodes ELSE {}
        sources  == IF has_read
                    THEN (i :> ((bid :> sn) @@ (IF i \in DOMAIN st.chunk_buffer_sources
                                                THEN st.chunk_buffer_sources[i]
                                                ELSE [b \in {} |-> <<>>])))
                         @@ st.chunk_buffer_sources
                    ELSE st.chunk_buffer_sources
        intersection == set_intersection(SeqOfSet(st.free_nodes), SeqOfSet(source_nodes))
        nid      == IF source_nodes # {} /\ intersection # <<>>
                    THEN intersection[1]
                    ELSE Head(SeqOfSet(st.free_nodes))
    IN  IF ~st.ok \/ ~read_ok THEN [st EXCEPT !.ok = FALSE]
        ELSE IF st.node_assigned THEN [st EXCEPT !.chunk_buffer_sources = sources]
        ELSE IF st.free_nodes = {} THEN [st EXCEPT !.ok = FALSE]
        ELSE [st EXCEPT !.chunk_buffer_sources = sources,
                        !.node_assigned = TRUE,
                        !.free_nodes = @ \ {nid},
                        !.chunk_nodes = (i :> nid) @@ @]

RECURSIVE assign_buffers(_, _, _, _, _)
assign_buffers(st, i, bids, chunk_reqs, vbr) ==
    IF bids = <<>> THEN st
    ELSE IF Head(bids) \in DOMAIN chunk_reqs[i]
         THEN CHOOSE r \in
                  {assign_buffers(next, i, Tail(bids), chunk_reqs, vbr) :
                      next \in {assign_for_buffer(st, i, Head(bids), chunk_reqs, vbr)}} : TRUE
         ELSE assign_buffers(st, i, Tail(bids), chunk_reqs, vbr)

RECURSIVE assign_chunks_from(_, _, _, _, _)
assign_chunks_from(st, i, num_chunks, chunk_reqs, vbr) ==
    IF i >= num_chunks \/ ~st.ok THEN st
    ELSE IF i \notin DOMAIN chunk_reqs
         THEN [st EXCEPT !.ok = FALSE]    \* chunk_reqs.at(i) throws std::out_of_range
         ELSE CHOOSE r \in
                  {assign_chunks_from(next, i + 1, num_chunks, chunk_reqs, vbr) :
                      next \in {assign_buffers([st EXCEPT !.node_assigned = FALSE], i,
                                               BufferOrder, chunk_reqs, vbr)}} : TRUE

\* assign_chunks_to_nodes: chunk_nodes, chunk_buffer_sources and whether it returned.
assign_chunks_to_nodes(num_chunks, chunk_reqs, vbr, free_nodes) ==
    assign_chunks_from(
        [free_nodes |-> free_nodes, chunk_nodes |-> [c \in {} |-> 0],
         chunk_buffer_sources |-> [c \in {} |-> 0], node_assigned |-> FALSE, ok |-> TRUE],
        0, num_chunks, chunk_reqs, vbr)

\* graph_utils::add_task: the task vertices of task tid are its predecessor tasks.
add_task(tid, tg) == [tid |-> tid, preds |-> tg[tid + 1].preds]

RECURSIVE add_dependencies(_, _, _)
\* add_dependency from depender to each command of the sequence dependees.
add_dependencies(g, depender, dependees) ==
    IF dependees = <<>> THEN g
    ELSE CHOOSE r \in
             {add_dependencies(next, depender, Tail(dependees)) :
                 next \in {add_dependency(g, depender, Head(dependees), FALSE)}} : TRUE

\* The commands of a node's execution front that belong to a predecessor task.
FrontOfPredecessors(g, nid, tv) ==
    {c \in get_execution_front(g, nid) :
        /\ g.commands[c].kind \in TaskCommandKinds
        /\ g.commands[c].tid \in tv.preds}

\* graph_utils::add_compute_cmd / add_master_access_cmd: the execution command of a
\* chunk on node nid, depending on the front commands of the predecessor tasks.
add_execution_cmd(g, kind, nid, tv, chunk) ==
    CHOOSE r \in
        {add_dependencies(g1, g.next_cmd_id, SeqOfSet(FrontOfPredecessors(g, nid, tv))) :
            g1 \in {create(g, kind, nid, tv.tid, [NoData EXCEPT !.box = chunk])}} : TRUE

\* The execution-front commands of the source node that wrote box of buffer bid in
\* an earlier task.
Writers(g, nid, bid, box, tv) ==
    {c \in get_execution_front(g, nid) :
        /\ g.commands[c].tid # tv.tid
        /\ \E w \in g.commands[c].writes : w[1] = bid /\ w[2] \cap box # {}}

\* A plausible slip: the push is emitted without the await-push that receives it.
add_push_cmd_without_await(g, to_nid, from_nid, bid, tv, req_cmd, box) ==
    CHOOSE r \in
        {add_dependencies(g1, g.next_cmd_id, SeqOfSet(Writers(g, from_nid, bid, box, tv))) :
            g1 \in {create(g, "PUSH", from_nid, -1,
                           [NoData EXCEPT !.bid = bid, !.box = box, !.target = to_nid])}} : TRUE

\* graph_utils::add_push_cmd: a push on the source node, anchored to the commands that
\* wrote the box, and an await-push on the reading node that the execution command
\* req_cmd depends on.
add_push_cmd(g, to_nid, from_nid, bid, tv, req_cmd, box) ==
    LET push_cid  == g.next_cmd_id
        await_cid == push_cid + 1
        anchored(g1) ==
            add_dependencies(g1, push_cid, SeqOfSet(Writers(g, from_nid, bid, box, tv)))
        awaited(g2) ==
            create(g2, "AWAIT_PUSH", to_nid, -1,
                   [NoData EXCEPT !.bid = bid, !.box = box, !.source_cid = push_cid])
    IN  CHOOSE r \in
            {add_dependency(g3, req_cmd, await_cid, FALSE) :
                g3 \in {awaited(g2) :
                    g2 \in {anchored(g1) :
                        g1 \in {create(g, "PUSH", from_nid, -1,
                                       [NoData EXCEPT !.bid = bid, !.box = box,
                                                      !.target = to_nid])}}}} : TRUE

RECURSIVE create_compute_cmds(_, _, _, _, _)
\* The loop of process_compute_task that creates a compute command for every chunk:
\* <<the graph, chunk_command_vertices>>.
create_compute_cmds(gv, i, chunks, chunk_nodes, tv) ==
    IF i >= Len(chunks) THEN gv
    ELSE LET nid   == IF i \in DOMAIN chunk_nodes THEN chunk_nodes[i] ELSE 0
             chunk == {k \in Indices : chunks[i + 1].start <= k
                                       /\ k < chunks[i + 1].start + chunks[i + 1].range}
         IN  CHOOSE r \in
                 {create_compute_cmds(next, i + 1, chunks, chunk_nodes, tv) :
                     next \in {<<add_execution_cmd(gv[1], "COMPUTE", nid, tv, chunk),
                                 Append(gv[2], gv[1].next_cmd_id)>>}} : TRUE

\* process_compute_task<1>
process_compute_task(g, tv, ctsk, num_worker_nodes, master_only, vbr) ==
    LET num_chunks == num_worker_nodes
        chunks     == split_equal(BufSize, num_chunks)
        rms        == SeqOfAccessors(ctsk.accesses)
        accs       == [k \in 1 .. (Len(rms) * num_chunks) |->
                          <<(k - 1) % num_chunks, rms[((k - 1) \div num_chunks) + 1]>>]
        free_nodes == {i \in 0 .. num_worker_nodes : master_only \/ i # 0}
        commands(chunk_requirements, assigned) ==
            CHOOSE r \in
                {[cdag |-> gv[1], num_chunks |-> num_chunks,
                  chunk_nodes |-> assigned.chunk_nodes,
                  chunk_requirements |-> chunk_requirements,
                  chunk_buffer_sources |-> assigned.chunk_buffer_sources,
                  chunk_command_vertices |-> gv[2], ok |-> assigned.ok] :
                    gv \in {create_compute_cmds(<<g, <<>>>>, 0, chunks,
                                                assigned.chunk_nodes, tv)}} : TRUE
        assignment(chunk_requirements) ==
            CHOOSE r \in
                {commands(chunk_requirements, assigned) :
                    assigned \in {assign_chunks_to_nodes(num_chunks, chunk_requirements,
                                                         vbr, free_nodes)}} : TRUE
    IN  CHOOSE r \in
            {assignment(chunk_requirements) :
                chunk_requirements \in {RequirementsFrom([c \in {} |-> 0], accs, chunks)}} : TRUE

RECURSIVE master_requirements(_, _)
master_requirements(reqs, accs) ==
    IF accs = <<>> THEN reqs
    ELSE CHOOSE r \in
             {master_requirements(merged, rest) :
                 merged \in {MergeRequirement(reqs, 0, Head(accs).bid, Head(accs).mode,
                                              map_1(Head(accs).rm,
                                                    [start |-> 0, range |-> BufSize]))},
                 rest \in {Tail(accs)}} : TRUE

\* process_master_access_task
process_master_access_task(g, tv, matsk, vbr) ==
    LET chunk_requirements ==
            CHOOSE r \in {master_requirements([c \in {} |-> 0], accs) :
                              accs \in {SeqOfAccessors(matsk.accesses)}} : TRUE
        present == 0 \in DOMAIN chunk_requirements   \* chunk_requirements.at(master_node)
        readers == IF present
                   THEN {bid \in DOMAIN chunk_requirements[0] :
                            "read" \in DOMAIN chunk_requirements[0][bid]}
                   ELSE {}
        sources == [bid \in readers |->
                       get_source_nodes(vbr[bid], chunk_requirements[0][bid]["read"])]
        reads_ok == \A bid \in readers :
                       /\ sources[bid] # <<>>
                       /\ source_nodes_covered(vbr[bid], chunk_requirements[0][bid]["read"])
    IN  [cdag |-> add_execution_cmd(g, "MASTER_ACCESS", 0, tv, {}),
         num_chunks |-> 1, chunk_nodes |-> (0 :> 0),
         chunk_requirements |-> chunk_requirements,
         chunk_buffer_sources |-> (0 :> sources),
         chunk_command_vertices |-> <<g.next_cmd_id>>,
         ok |-> present /\ reads_ok]

RECURSIVE push_boxes(_, _, _, _, _, _)
\* A plausible slip: the test whether the reading node already holds the box is
\* missing.
push_boxes_unconditionally(g, buffer_sources, nid, bid, tv, command_vertex) ==
    IF buffer_sources = <<>> THEN g
    ELSE LET box           == Head(buffer_sources).box
             box_src_nodes == Head(buffer_sources).nodes
             source_nid    == CHOOSE n \in box_src_nodes : \A m \in box_src_nodes : n <= m
         IN  CHOOSE r \in
                 {push_boxes(next, Tail(buffer_sources), nid, bid, tv, command_vertex) :
                     next \in {add_push_cmd(g, nid, source_nid, bid, tv,
                                            command_vertex, box)}} : TRUE

\* A plausible slip: the source is the first other node, not a node of the box's
\* source set.
push_boxes_from_first_node(g, buffer_sources, nid, bid, tv, command_vertex) ==
    IF buffer_sources = <<>> THEN g
    ELSE LET box           == Head(buffer_sources).box
             box_src_nodes == Head(buffer_sources).nodes
             others        == DOMAIN g.execution_fronts \ {nid}
             source_nid    == CHOOSE n \in others : \A m \in others : n <= m
         IN  IF nid \in box_src_nodes
             THEN push_boxes(g, Tail(buffer_sources), nid, bid, tv, command_vertex)
             ELSE CHOOSE r \in
                      {push_boxes(next, Tail(buffer_sources), nid, bid, tv, command_vertex) :
                          next \in {add_push_cmd(g, nid, source_nid, bid, tv,
                                                 command_vertex, box)}} : TRUE

\* The loop of process_task_data_requirements over the source cover of one read.
push_boxes(g, buffer_sources, nid, bid, tv, command_vertex) ==
    IF buffer_sources = <<>> THEN g
    ELSE LET box           == Head(buffer_sources).box
             box_src_nodes == Head(buffer_sources).nodes
             source_nid    == CHOOSE n \in box_src_nodes : \A m \in box_src_nodes : n <= m
         IN  IF nid \in box_src_nodes
             THEN push_boxes(g, Tail(buffer_sources), nid, bid, tv, command_vertex)
             ELSE CHOOSE r \in
                      {push_boxes(next, Tail(buffer_sources), nid, bid, tv, command_vertex) :
                          next \in {add_push_cmd(g, nid, source_nid, bid, tv,
                                                 command_vertex, box)}} : TRUE

\* A plausible slip: the region a chunk reads is recorded in buffer_writers too, as
\* if the copy the chunk's node receives made it a source of the region.
requirements_of_buffer_recording_reads(st, i, bid, p, tv) ==
    LET nid == p.chunk_nodes[i]
        req == p.chunk_requirements[i][bid]
        command_vertex == p.chunk_command_vertices[i + 1]
        has_write == "write" \in DOMAIN req
        has_read  == "read" \in DOMAIN req
        areas_ok  == /\ has_write => req["write"] # {}
                     /\ has_read => req["read"] # {}
        of_buffer == IF bid \in DOMAIN st.buffer_writers THEN st.buffer_writers[bid]
                     ELSE [n \in {} |-> <<>>]
        of_node   == IF nid \in DOMAIN of_buffer THEN of_buffer[nid] ELSE <<>>
        accessed  == (IF has_write THEN <<req["write"]>> ELSE <<>>)
                     \o (IF has_read THEN <<req["read"]>> ELSE <<>>)
        writers   == (bid :> ((nid :> (of_node \o accessed)) @@ of_buffer))
                     @@ st.buffer_writers
        labelled  == IF has_write
                     THEN [st.cdag EXCEPT !.commands[command_vertex].writes =
                                              @ \cup {<<bid, req["write"]>>}]
                     ELSE st.cdag
    IN  IF ~st.ok \/ ~areas_ok THEN [st EXCEPT !.ok = FALSE]
        ELSE [st EXCEPT
                 !.buffer_writers = writers,
                 !.cdag = IF has_read
                          THEN push_boxes(labelled, p.chunk_buffer_sources[i][bid], nid, bid,
                                          tv, command_vertex)
                          ELSE labelled]

\* The body of process_task_data_requirements' loop over the buffers of chunk i. st
\* holds the graph, buffer_writers and whether every assertion so far held.
requirements_of_buffer(st, i, bid, p, tv) ==
    LET nid == p.chunk_nodes[i]
        req == p.chunk_requirements[i][bid]
        command_vertex == p.chunk_command_vertices[i + 1]
        has_write == "write" \in DOMAIN req
        has_read  == "read" \in DOMAIN req
        areas_ok  == /\ has_write => req["write"] # {}
                     /\ has_read => req["read"] # {}
        of_buffer == IF bid \in DOMAIN st.buffer_writers THEN st.buffer_writers[bid]
                     ELSE [n \in {} |-> <<>>]
        of_node   == IF nid \in DOMAIN of_buffer THEN of_buffer[nid] ELSE <<>>
        writers   == IF has_write
                     THEN (bid :> ((nid :> Append(of_node, req["write"])) @@ of_buffer))
                          @@ st.buffer_writers
                     ELSE st.buffer_writers
        labelled  == IF has_write
                     THEN [st.cdag EXCEPT !.commands[command_vertex].writes =
                                              @ \cup {<<bid, req["write"]>>}]
                     ELSE st.cdag
    IN  IF ~st.ok \/ ~areas_ok THEN [st EXCEPT !.ok = FALSE]
        ELSE [st EXCEPT
                 !.buffer_writers = writers,
                 !.cdag = IF has_read
                          THEN push_boxes(labelled, p.chunk_buffer_sources[i][bid], nid, bid,
                                          tv, command_vertex)
                          ELSE labelled]

RECURSIVE requirements_of_buffers(_, _, _, _, _)
requirements_of_buffers(st, i, bids, p, tv) ==
    IF bids = <<>> THEN st
    ELSE IF Head(bids) \in DOMAIN p.chunk_requirements[i]
         THEN CHOOSE r \in
                  {requirements_of_buffers(next, i, Tail(bids), p, tv) :
                      next \in {requirements_of_buffer(st, i, Head(bids), p, tv)}} : TRUE
         ELSE requirements_of_buffers(st, i, Tail(bids), p, tv)

RECURSIVE requirements_from(_, _, _, _)
requirements_from(st, i, p, tv) ==
    IF i >= Cardinality(DOMAIN p.chunk_nodes) \/ ~st.ok THEN st
    ELSE IF i \notin DOMAIN p.chunk_nodes \/ i \notin DOMAIN p.chunk_requirements
         THEN [st EXCEPT !.ok = FALSE]    \* .at(i) throws std::out_of_range
         ELSE CHOOSE r \in
                  {requirements_from(next, i + 1, p, tv) :
                      next \in {requirements_of_buffers(st, i, BufferOrder, p, tv)}} : TRUE

\* runtime::process_task_data_requirements, for the outcome p of process_compute_task
\* or process_master_access_task: the graph, buffer_writers and whether it returned.
process_task_data_requirements(p, tv) ==
    requirements_from([cdag |-> p.cdag, buffer_writers |-> [b \in {} |-> 0], ok |-> p.ok],
                      0, p, tv)

RECURSIVE MergeAll(_)
\* GridRegion::merge over a vector of regions.
MergeAll(regions) ==
    IF regions = <<>> THEN {} ELSE Head(regions) \cup MergeAll(Tail(regions))

RECURSIVE accumulate_buffer_state(_, _, _, _)
accumulate_buffer_state(buffer_writers, bs, order, region) ==
    IF order = <<>> THEN bs
    ELSE CHOOSE r \in
             {accumulate_buffer_state(buffer_writers,
                                      update_region(bs, merged, {Head(order)}),
                                      Tail(order), merged) :
                 merged \in {region \cup MergeAll(buffer_writers[Head(order)])}} : TRUE

\* A plausible slip: the merged region is declared outside the loop over the writers,
\* so every writer is also credited with the regions of the writers visited before it.
update_buffer_state_accumulating(buffer_writers, bs, order) ==
    accumulate_buffer_state(buffer_writers, bs, order, {})

\* A plausible slip: the loop over the writers returns after its first iteration.
update_buffer_state_of_first_writer(buffer_writers, bs, order) ==
    IF order = <<>> THEN bs
    ELSE update_region(bs, MergeAll(buffer_writers[Head(order)]), {Head(order)})

RECURSIVE update_buffer_state(_, _, _)
\* update_buffer_state; order is the order in which the loop visits the writers (the
\* iteration order of the unordered_map).
update_buffer_state(buffer_writers, bs, order) ==
    IF order = <<>> THEN bs
    ELSE CHOOSE r \in
             {update_buffer_state(buffer_writers, next, Tail(order)) :
                 next \in {update_region(bs, MergeAll(buffer_writers[Head(order)]),
                                         {Head(order)})}} : TRUE

\* The orders in which a set can be visited.
Orders(S) ==
    {o \in [1 .. Cardinality(S) -> S] : \A a, b \in DOMAIN o : a # b => o[a] # o[b]}

\* The orders in which the loops over buffer_writers may visit the writers of every
\* buffer.
WriterOrders(buffer_writers) ==
    {orders \in [DOMAIN buffer_writers ->
                    UNION {Orders(DOMAIN buffer_writers[b]) : b \in DOMAIN buffer_writers}] :
        \A b \in DOMAIN orders : orders[b] \in Orders(DOMAIN buffer_writers[b])}

\* valid_buffer_regions after the loop of build_command_graph over buffer_writers;
\* orders gives the order of the writers of every buffer.
updated_buffer_regions(vbr, buffer_writers, orders) ==
    [bid \in DOMAIN vbr |->
        IF bid \in DOMAIN buffer_writers
        THEN update_buffer_state(buffer_writers[bid], vbr[bid], orders[bid])
        ELSE vbr[bid]]

\* A plausible slip: the single "split" of the program run on one node is missing.
build_command_graph_without_single_split(g, tid, tg, nodes, vbr) ==
    LET num_worker_nodes == nodes - 1
        master_only      == nodes = 1
        tsk == tg[tid + 1]
        tv  == add_task(tid, tg)
    IN  CHOOSE r \in
            {IF p.ok THEN process_task_data_requirements(p, tv)
             ELSE [cdag |-> p.cdag, buffer_writers |-> [b \in {} |-> 0], ok |-> FALSE] :
                p \in {IF tsk.type = "COMPUTE"
                       THEN process_compute_task(g, tv, tsk, num_worker_nodes, master_only,
                                                 vbr)
                       ELSE process_master_access_task(g, tv, tsk, vbr)}} : TRUE

\* One invocation of runtime::build_command_graph on the satisfied task tid of tg.
build_command_graph(g, tid, tg, nodes, vbr) ==
    LET num_worker_nodes == Max({nodes - 1, 1})
        master_only      == nodes = 1
        tsk == tg[tid + 1]
        tv  == add_task(tid, tg)
    IN  CHOOSE r \in
            {IF p.ok THEN process_task_data_requirements(p, tv)
             ELSE [cdag |-> p.cdag, buffer_writers |-> [b \in {} |-> 0], ok |-> FALSE] :
                p \in {IF tsk.type = "COMPUTE"
                       THEN process_compute_task(g, tv, tsk, num_worker_nodes, master_only,
                                                 vbr)
                       ELSE process_master_access_task(g, tv, tsk, vbr)}} : TRUE

\* ------------------------------------------- SpecGen: the graph generator alone
\* The accessors a task may hold on a buffer: at most one reader and one writer.
Accessors(bid) ==
    {[bid |-> bid, mode |-> m, rm |-> r] : m \in {"read", "write"}, r \in {"one_to_one", "all"}}

AccessSets ==
    {S \in SUBSET (UNION {Accessors(bid) : bid \in Buffers}) :
        \A a, b \in S : (a.bid = b.bid /\ a.mode = b.mode) => a = b}

\* The tasks the queue may hold after the tasks 0 .. tid - 1: a compute task over the
\* whole range or a master-access task over whole buffers, with no predecessor or
\* with the previous task as its predecessor.
TaskShapes(tid) ==
    {tsk \in [type : {"COMPUTE", "MASTER_ACCESS"},
              accesses : AccessSets,
              preds : {{}} \cup {{t} : t \in {tid - 1} \cap (0 .. MaxTasks)}] :
        tsk.type = "MASTER_ACCESS" => \A a \in tsk.accesses : a.rm = "all"}

BtmIdle ==
    /\ btm = [n \in {} |-> EmptyBtm]
    /\ data_net = {}
    /\ jobs = [n \in {} |-> <<>>]

\* The executors' and the dispatcher's variables in the specifications without them.
RunIdle ==
    /\ cmd_queue = <<>>
    /\ exec = <<>>
    /\ trace = <<>>

InitGen ==
    /\ BtmIdle
    /\ RunIdle
    /\ failed = FALSE
    /\ num_nodes \in 1 .. MaxNodes
    /\ cdag = EmptyGraph(0 .. (num_nodes - 1))
    /\ task_graph = <<>>
    /\ valid_buffer_regions = [bid \in {0} |-> EmptyBufferState]
    /\ build_done = FALSE
    /\ task_chunks = <<>>
    /\ ndebug = FALSE

\* build_command_graph processes tsk, the next satisfied task of the queue.
BuildTask(tsk) ==
    /\ \E r \in {build_command_graph(cdag, Len(task_graph), Append(task_graph, tsk),
                                     num_nodes, valid_buffer_regions)} :
         LET tg  == Append(task_graph, tsk)
             ok  == /\ r.ok
                    /\ \A e \in Edges(r.cdag) : add_dependency_allowed(r.cdag, e[1], e[2])
         IN  /\ task_graph' = tg
             /\ failed' = ~ok
             /\ IF ok
                THEN /\ cdag' = r.cdag
                     /\ \E orders \in WriterOrders(r.buffer_writers) :
                          valid_buffer_regions' =
                              updated_buffer_regions(valid_buffer_regions,
                                                     r.buffer_writers, orders)
                ELSE UNCHANGED <<cdag, valid_buffer_regions>>
    /\ UNCHANGED <<btmVars, num_nodes, build_done, task_chunks, ndebug, runVars>>

\* build_command_graph obtains the next satisfied task and processes it.
BuildCommandGraph ==
    /\ ~failed /\ ~build_done
    /\ Len(task_graph) < MaxTasks
    /\ \E tsk \in TaskShapes(Len(task_graph)) : BuildTask(tsk)

\* get_satisfied_task returns false: every task has been processed.
BuildFinished ==
    /\ ~failed /\ ~build_done
    /\ task_graph # <<>>
    /\ build_done' = TRUE
    /\ UNCHANGED <<btmVars, failed, cdag, num_nodes, task_graph, valid_buffer_regions,
                   task_chunks, ndebug, runVars>>

NextGen == BuildCommandGraph \/ BuildFinished

SpecGen == InitGen /\ [][NextGen]_vars

\* The generator's variables in the specifications that do not run it.
GenIdle ==
    /\ num_nodes = 0
    /\ task_graph = <<>>
    /\ valid_buffer_regions = <<>>
    /\ build_done = FALSE
    /\ task_chunks = <<>>
    /\ ndebug = FALSE

\* ------------------------------------- SpecCG: the command graph container alone
CgNodes == {0, 1}
CgKinds == {"NOP", "COMPUTE", "PUSH"}

InitCG ==
    /\ btm = [n \in {} |-> EmptyBtm]
    /\ data_net = {}
    /\ jobs = [n \in {} |-> <<>>]
    /\ failed = FALSE
    /\ cdag = EmptyGraph(CgNodes)
    /\ GenIdle
    /\ RunIdle

CgCreate ==
    /\ cdag.next_cmd_id < MaxCmds
    /\ \E kind \in CgKinds, nid \in CgNodes :
          cdag' = create(cdag, kind, nid, 0, NoData)
    /\ UNCHANGED <<btmVars, failed, genVars, runVars>>

CgAddDependency ==
    /\ \E depender, dependee \in DOMAIN cdag.commands :
          /\ add_dependency_allowed(cdag, depender, dependee)
          /\ cdag.commands[dependee].pseudo_critical_path_length < MaxPath
          /\ cdag' = add_dependency(cdag, depender, dependee, FALSE)
    /\ UNCHANGED <<btmVars, failed, genVars, runVars>>

CgRemoveDependency ==
    /\ \E e \in Edges(cdag) : cdag' = remove_dependency(cdag, e[1], e[2])
    /\ UNCHANGED <<btmVars, failed, genVars, runVars>>

NextCG == CgCreate \/ CgAddDependency \/ CgRemoveDependency

SpecCG == InitCG /\ [][NextCG]_vars

\* ------- SpecPairs: command_graph as the generator drives it, transfers included
\* The push commands of g that no await-push names yet.
UnmatchedPushes(g) ==
    {p \in DOMAIN g.commands :
        /\ g.commands[p].kind = "PUSH"
        /\ \A a \in DOMAIN g.commands : g.commands[a].data.source_cid # p}

\* create<compute_command> on any node.
PairCreateCompute ==
    /\ cdag.next_cmd_id < MaxPairCmds
    /\ \E nid \in CgNodes : cdag' = create(cdag, "COMPUTE", nid, 0, NoData)
    /\ UNCHANGED <<btmVars, failed, genVars, runVars>>

\* create<push_command> on a node, for a target that is another node.
PairCreatePush ==
    /\ cdag.next_cmd_id < MaxPairCmds
    /\ \E nid \in CgNodes, target \in CgNodes :
          /\ target # nid
          /\ cdag' = create(cdag, "PUSH", nid, -1, [NoData EXCEPT !.target = target])
    /\ UNCHANGED <<btmVars, failed, genVars, runVars>>

\* create<await_push_command> on the target node of a push no await-push names yet.
PairCreateAwaitPush ==
    /\ cdag.next_cmd_id < MaxPairCmds
    /\ \E p \in UnmatchedPushes(cdag) :
          cdag' = create(cdag, "AWAIT_PUSH", cdag.commands[p].data.target, -1,
                         [NoData EXCEPT !.source_cid = p])
    /\ UNCHANGED <<btmVars, failed, genVars, runVars>>

\* add_dependency between any two commands; a failed assertion aborts.
PairAddDependency ==
    /\ ~failed
    /\ Cardinality(Edges(cdag)) < MaxEdges
    /\ \E depender, dependee \in DOMAIN cdag.commands :
          IF add_dependency_allowed(cdag, depender, dependee)
          THEN /\ cdag.commands[dependee].pseudo_critical_path_length < MaxPath
               /\ cdag' = add_dependency(cdag, depender, dependee, FALSE)
               /\ UNCHANGED failed
          ELSE /\ failed' = TRUE
               /\ UNCHANGED cdag
    /\ UNCHANGED <<btmVars, genVars, runVars>>

NextPairs ==
    \/ PairCreateCompute
    \/ PairCreatePush
    \/ PairCreateAwaitPush
    \/ PairAddDependency

SpecPairs == InitCG /\ [][NextPairs]_vars

\* ------------------------------------------------- SpecBTM: the manager alone
BtmNodes == {0, 1}

\* The push / await-push pairs whose jobs the nodes hold: pair p is pushed by node
\* src[p] with push cid p and awaited by the other node under cid MaxPush + p.
PairShapes ==
    [1 .. MaxPush -> [src : BtmNodes]]

PushPkg(p, s) ==
    [cmd |-> "PUSH", cid |-> p, bid |-> 0, subrange |-> <<p - 1, 1>>,
     target |-> 1 - s.src, source_cid |-> -1]

AwaitPushPkg(p, s) ==
    [cmd |-> "AWAIT_PUSH", cid |-> MaxPush + p, bid |-> 0, subrange |-> <<p - 1, 1>>,
     target |-> -1, source_cid |-> p]

JobsOf(n, shape) ==
    LET mine(p) == IF shape[p].src = n THEN <<NewJob(PushPkg(p, shape[p]))>>
                   ELSE <<NewJob(AwaitPushPkg(p, shape[p]))>>
        RECURSIVE cat(_)
        cat(p) == IF p > MaxPush THEN <<>> ELSE mine(p) \o cat(p + 1)
    IN  cat(1)

InitBTM ==
    /\ btm = [n \in BtmNodes |-> EmptyBtm]
    /\ data_net = {}
    /\ failed = FALSE
    /\ cdag = EmptyGraph({})
    /\ GenIdle
    /\ RunIdle
    /\ \E shape \in PairShapes : jobs = [n \in BtmNodes |-> JobsOf(n, shape)]

BtmPoll(n) ==
    /\ ~failed
    /\ \E c \in PollChoices(n) :
         /\ btm' = [btm EXCEPT ![n] = poll(n, c[1], c[2], c[3])]
         /\ data_net' = data_net \ c[1]
    /\ UNCHANGED <<jobs, failed, cdag>>
    /\ UNCHANGED <<genVars, runVars>>

BtmUpdatePush(n) ==
    /\ ~failed
    /\ \E i \in DOMAIN jobs[n] :
         /\ jobs[n][i].pkg.cmd = "PUSH"
         /\ ~jobs[n][i].done
         /\ UpdatePushJob(n, i)
    /\ UNCHANGED <<cdag, genVars, runVars>>

BtmUpdateAwaitPush(n) ==
    /\ ~failed
    /\ \E i \in DOMAIN jobs[n] :
         /\ jobs[n][i].pkg.cmd = "AWAIT_PUSH"
         /\ ~jobs[n][i].done
         /\ UpdateAwaitPushJob(n, i)
    /\ UNCHANGED <<cdag, genVars, runVars>>

NextBTM ==
    \E n \in BtmNodes :
        \/ BtmPoll(n)
        \/ BtmUpdatePush(n)
        \/ BtmUpdateAwaitPush(n)

SpecBTM == InitBTM /\ [][NextBTM]_vars


\* ------------------- SpecRun: the dispatcher and the executors of all the nodes
RECURSIVE build_command_graphs(_, _, _, _, _)
\* build_command_graph with its recursive calls, from task tid on: the outcomes it
\* may have, each the graph, the buffer states and whether every assertion held.
build_command_graphs(g, tid, tg, nodes, vbr) ==
    IF tid >= Len(tg) THEN {[cdag |-> g, valid_buffer_regions |-> vbr, ok |-> TRUE]}
    ELSE UNION
        {IF r.ok /\ \A e \in Edges(r.cdag) : add_dependency_allowed(r.cdag, e[1], e[2])
         THEN UNION {build_command_graphs(
                         r.cdag, tid + 1, tg, nodes,
                         updated_buffer_regions(vbr, r.buffer_writers, orders)) :
                        orders \in WriterOrders(r.buffer_writers)}
         ELSE {[cdag |-> g, valid_buffer_regions |-> vbr, ok |-> FALSE]} :
            r \in {build_command_graph(g, tid, tg, nodes, vbr)}}

RECURSIVE search_vertex_bf(_, _, _)
\* graph_utils::search_vertex_bf with a visitor that never ends the search: the
\* vertices in the order visited, from those queued, along the edges from a command
\* to the commands that depend on it.
search_vertex_bf(g, queue, seen) ==
    IF queue = <<>> THEN <<>>
    ELSE CHOOSE r \in
             {<<Head(queue)>> \o search_vertex_bf(g, Tail(queue) \o SeqOfSet(found),
                                                  seen \cup found) :
                 found \in {Dependents(g, Head(queue)) \ seen}} : TRUE

\* The command_pkg {tid, cid, cmd, data} of a command.
command_pkg(c) ==
    [cmd |-> c.kind, cid |-> c.cid, tid |-> c.tid, bid |-> c.data.bid,
     subrange |-> c.data.box, target |-> c.data.target, source_cid |-> c.data.source_cid]

\* command_pkg{0, cid, command::SHUTDOWN, command_data{}}
shutdown_pkg(cid) ==
    [cmd |-> "SHUTDOWN", cid |-> cid, tid |-> 0, bid |-> -1, subrange |-> {},
     target |-> -1, source_cid |-> -1]

\* The commands the visitor of TEST_do_work ships, in the order visited.
shipped_commands(g, order) ==
    SelectSeq(order, LAMBDA v : g.commands[v].kind # "NOP")

RECURSIVE ship(_, _, _)
\* The visitor of TEST_do_work over the vertices visited: send_command to the node of
\* the command, or master_commands.push when that node is 0.
ship(g, order, queues) ==
    IF order = <<>> THEN queues
    ELSE CHOOSE r \in
             {ship(g, Tail(order), next) :
                 next \in {[queues EXCEPT ![g.commands[Head(order)].nid] =
                                             Append(@, command_pkg(g.commands[Head(order)]))]}} :
             TRUE

\* A plausible slip: the shutdown packages go out before the commands are shipped.
send_shutdowns_first(queues, nodes, first_cid) ==
    [n \in DOMAIN queues |->
        <<shutdown_pkg(IF n = 0 THEN first_cid + nodes - 1 ELSE first_cid + n - 1)>>
            \o queues[n]]

\* The two shutdown steps of TEST_do_work: one package to every worker, one into
\* master_commands; first_cid is next_cmd_id before them.
send_shutdowns(queues, nodes, first_cid) ==
    [n \in DOMAIN queues |->
        Append(queues[n],
               shutdown_pkg(IF n = 0 THEN first_cid + nodes - 1 ELSE first_cid + n - 1))]

\* A plausible slip: the test of the job list is inverted.
loop_continues_while_idle(done, js) == ~done \/ js = <<>>

\* A plausible slip: the loop ends on shutdown whatever jobs are left.
loop_continues_until_done(done, js) == ~done

\* The loop condition of TEST_do_work.
loop_continues(done, js) == ~done \/ js # <<>>

RECURSIVE update_jobs(_, _, _, _)
\* The loop of TEST_do_work over the job list js at node n: update() on every job,
\* erasing those that report done. complete holds the commands whose completion flag
\* is set. st carries the transfer manager, the jobs kept, the messages posted,
\* whether every assertion held, and the history.
update_jobs(st, js, n, complete) ==
    IF js = <<>> THEN st
    ELSE LET job == Head(js)
             cid == job.pkg.cid
             updated(r) ==
                 [btm      |-> r.btm,
                  kept     |-> IF r.job.done THEN st.kept ELSE Append(st.kept, r.job),
                  sent     |-> st.sent \cup r.sent,
                  ok       |-> st.ok /\ r.ok,
                  finished |-> IF r.job.done THEN st.finished \cup {cid} ELSE st.finished,
                  started  |-> IF job.started THEN st.started
                               ELSE (cid :> st.finished) @@ st.started]
         IN  CHOOSE x \in
                 {update_jobs(next, Tail(js), n, complete) :
                     next \in {updated(r) :
                         r \in {IF job.pkg.cmd = "PUSH"
                                  THEN push_job_update(st.btm, job, n)
                                ELSE IF job.pkg.cmd = "AWAIT_PUSH"
                                  THEN await_push_job_update(st.btm, job, n)
                                ELSE execution_job_update(st.btm, job, cid \in complete)}}} :
                 TRUE

\* The tasks of SpecRun: a compute task writing or reading its chunk, a master-access
\* task reading or writing the whole buffer.
RunShapes ==
    {[type |-> "COMPUTE", accesses |-> {[bid |-> 0, mode |-> "write", rm |-> "one_to_one"]}],
     [type |-> "COMPUTE", accesses |-> {[bid |-> 0, mode |-> "read", rm |-> "one_to_one"]}],
     [type |-> "MASTER_ACCESS", accesses |-> {[bid |-> 0, mode |-> "read", rm |-> "all"]}],
     [type |-> "MASTER_ACCESS", accesses |-> {[bid |-> 0, mode |-> "write", rm |-> "all"]}]}

\* The task graphs of SpecRun: up to RunTasks tasks, each with no predecessor or with
\* the task before it as its predecessor.
RunTaskGraphs ==
    UNION {{tg \in [1 .. k -> [type : {"COMPUTE", "MASTER_ACCESS"},
                               accesses : {sh.accesses : sh \in RunShapes},
                               preds : {{}} \cup {{t} : t \in 0 .. (k - 2)}]] :
               \A i \in 1 .. k :
                   /\ [type |-> tg[i].type, accesses |-> tg[i].accesses] \in RunShapes
                   /\ tg[i].preds \subseteq {i - 2} \cap (0 .. k)} :
           k \in 1 .. RunTasks}

InitRun ==
    /\ num_nodes \in 1 .. RunNodes
    /\ task_graph \in RunTaskGraphs
    /\ cdag = EmptyGraph(0 .. (num_nodes - 1))
    /\ valid_buffer_regions = [bid \in {0} |-> EmptyBufferState]
    /\ build_done = FALSE
    /\ task_chunks = <<>>
    /\ ndebug = FALSE
    /\ failed = FALSE
    /\ btm = [n \in 0 .. (num_nodes - 1) |-> EmptyBtm]
    /\ data_net = {}
    /\ jobs = [n \in 0 .. (num_nodes - 1) |-> <<>>]
    /\ cmd_queue = [n \in 0 .. (num_nodes - 1) |-> <<>>]
    /\ exec = [n \in 0 .. (num_nodes - 1) |->
                  [done |-> FALSE, exited |-> FALSE, shutdowns |-> 0]]
    /\ trace = [shipped |-> <<>>, finished |-> {}, started |-> [c \in {} |-> {}]]

\* TEST_do_work on the master, up to its loop: build the command graph, ship the
\* commands found breadth-first from vertex 0, send the shutdown commands.
MasterDispatch ==
    /\ ~failed /\ ~build_done
    /\ \E r \in build_command_graphs(cdag, 0, task_graph, num_nodes, valid_buffer_regions) :
         IF r.ok
         THEN \E order \in {shipped_commands(r.cdag, search_vertex_bf(r.cdag, <<0>>, {0}))} :
                /\ cdag' = [r.cdag EXCEPT !.next_cmd_id = @ + num_nodes]
                /\ valid_buffer_regions' = r.valid_buffer_regions
                /\ cmd_queue' = send_shutdowns(ship(r.cdag, order, cmd_queue), num_nodes,
                                               r.cdag.next_cmd_id)
                /\ trace' = [trace EXCEPT !.shipped =
                                [i \in DOMAIN order |->
                                    [cid |-> order[i],
                                     to  |-> r.cdag.commands[order[i]].nid,
                                     via |-> IF r.cdag.commands[order[i]].nid # 0
                                             THEN "transport" ELSE "local"]]]
                /\ build_done' = TRUE
                /\ UNCHANGED failed
         ELSE /\ failed' = TRUE
              /\ UNCHANGED <<cdag, valid_buffer_regions, cmd_queue, trace, build_done>>
    /\ UNCHANGED <<btmVars, num_nodes, task_graph, task_chunks, ndebug, exec>>

\* The compute and master-access jobs node n holds.
ExecutionJobs(n) ==
    {jobs[n][i].pkg.cid : i \in {j \in DOMAIN jobs[n] : jobs[n][j].pkg.cmd \in TaskCommandKinds}}

\* One iteration of the loop of TEST_do_work at node n: poll the transfer manager,
\* update the jobs, take a command package if there is one, test the loop condition.
\* c is what the poll finds, complete the execution jobs whose completion flag is
\* set, probe the flag of MPI_Iprobe on a worker.
ExecutorIteration(n, c, complete, probe) ==
    /\ ~failed
    /\ ~exec[n].exited
    /\ n = 0 => build_done
    /\ \E st \in {update_jobs([btm |-> poll(n, c[1], c[2], c[3]), kept |-> <<>>,
                               sent |-> {}, ok |-> TRUE, finished |-> trace.finished,
                               started |-> trace.started],
                              jobs[n], n, complete)} :
         LET has_pkg  == cmd_queue[n] # <<>> /\ (n = 0 \/ probe)
             shutdown == has_pkg /\ Head(cmd_queue[n]).cmd = "SHUTDOWN"
             js       == IF has_pkg /\ ~shutdown
                         THEN Append(st.kept, NewJob(Head(cmd_queue[n])))
                         ELSE st.kept
             done     == exec[n].done \/ shutdown
         IN  /\ btm' = [btm EXCEPT ![n] = st.btm]
             /\ data_net' = (data_net \ c[1]) \cup st.sent
             /\ jobs' = [jobs EXCEPT ![n] = js]
             /\ cmd_queue' = IF has_pkg THEN [cmd_queue EXCEPT ![n] = Tail(@)] ELSE cmd_queue
             /\ exec' = [exec EXCEPT ![n] =
                            [done      |-> done,
                             exited    |-> ~loop_continues(done, js),
                             shutdowns |-> @.shutdowns + (IF shutdown THEN 1 ELSE 0)]]
             /\ failed' = ~st.ok
             /\ trace' = [trace EXCEPT !.finished = st.finished, !.started = st.started]
    /\ UNCHANGED <<cdag, genVars>>

ExecutorLoop(n) ==
    \E c \in PollChoices(n), complete \in SUBSET ExecutionJobs(n), probe \in BOOLEAN :
        ExecutorIteration(n, c, complete, probe)

NextRun == MasterDispatch \/ \E n \in DOMAIN exec : ExecutorLoop(n)

SpecRun == InitRun /\ [][NextRun]_vars

\* ------------------------------------------- claims of the transfer manager
\* The await-push jobs of node n that have called await_push.
PostedAwaits(n) ==
    {i \in DOMAIN jobs[n] : jobs[n][i].pkg.cmd = "AWAIT_PUSH" /\ jobs[n][i].started}

WritesFor(n, P) ==
    LET hs == {h \in BagToSet(btm[n].buffer_writes) : h.push_cid = P}
        RECURSIVE sum(_)
        sum(S) == IF S = {} THEN 0
                  ELSE LET h == CHOOSE x \in S : TRUE
                       IN  CopiesIn(h, btm[n].buffer_writes) + sum(S \ {h})
    IN  sum(hs)

\* C1: for every push_cid P, once poll has observed the completed receipt of the
\* transfer carrying P and await_push has been called with source_cid P, in either
\* order, the data has been written to buffer storage exactly once, the handle
\* await_push returned is complete and the blackboard holds no entry for P.
C1_Rendezvous ==
    \A n \in DOMAIN jobs : \A i \in PostedAwaits(n) :
        LET P == jobs[n][i].pkg.source_cid IN
        P \in btm[n].observed =>
            /\ WritesFor(n, P) = 1
            /\ btm[n].handles[jobs[n][i].handle].complete
            /\ P \notin DOMAIN btm[n].push_blackboard

\* Two transfers to one node are through: received, awaited and written.
C1_Witness ==
    \E n \in DOMAIN jobs : \E i, j \in PostedAwaits(n) :
        /\ i # j
        /\ jobs[n][i].pkg.source_cid \in btm[n].observed
        /\ jobs[n][j].pkg.source_cid \in btm[n].observed
        /\ WritesFor(n, jobs[n][i].pkg.source_cid) = 1
        /\ WritesFor(n, jobs[n][j].pkg.source_cid) = 1
\* ---------------------------------------------------- claims of command_graph
\* C4: every dependency edge joins two commands of one node, and no push is joined
\* to the await-push that names it by a dependency edge in either direction.
C4_EdgesWithinNode ==
    \A e \in Edges(cdag) :
        /\ cdag.commands[e[1]].nid = cdag.commands[e[2]].nid
        /\ cdag.commands[e[1]].data.source_cid # e[2]
        /\ cdag.commands[e[2]].data.source_cid # e[1]

\* A push and its await-push exist, and a command depends on one of the two.
C4_Witness ==
    \E a \in DOMAIN cdag.commands :
        /\ cdag.commands[a].kind = "AWAIT_PUSH"
        /\ cdag.commands[a].data.source_cid \in DOMAIN cdag.commands
        /\ \E e \in Edges(cdag) : e[2] \in {a, cdag.commands[a].data.source_cid}

\* C9: after any sequence of create, add_dependency and remove_dependency calls, the
\* execution front of every node n is exactly the set of commands on n (nop commands,
\* which are never entered, aside) that no other command depends on.
C9_FrontIsLeaves ==
    \A n \in DOMAIN cdag.execution_fronts :
        cdag.execution_fronts[n] =
            {c \in DOMAIN cdag.commands :
                /\ cdag.commands[c].nid = n
                /\ cdag.commands[c].kind # "NOP"
                /\ Dependents(cdag, c) = {}}

\* C10 as stated: after any sequence of create and add_dependency calls that meet
\* add_dependency's preconditions, no command lies on a dependency cycle.
C10_Acyclic ==
    \A c \in DOMAIN cdag.commands : ~OnCycle(cdag, c)

\* C10 as amended: after any sequence of create and add_dependency calls that meet
\* add_dependency's preconditions, no command depends on itself and every dependency
\* joins two commands of one node; cycles through two or more commands are possible.
C10_NoSelfDependency ==
    \A e \in Edges(cdag) :
        /\ e[1] # e[2]
        /\ cdag.commands[e[1]].nid = cdag.commands[e[2]].nid

\* add_dependency has closed a cycle of two commands of one node.
C10_Witness ==
    \E e \in Edges(cdag) : <<e[2], e[1]>> \in Edges(cdag) /\ e[1] # e[2]
\* ------------------------------------------------------ claims of the generator
\* The commands of graph g of kind k.
OfKind(g, k) == {c \in DOMAIN g.commands : g.commands[c].kind = k}

\* C3: in every command graph the generator produces, every await_push has exactly
\* one push whose cid is its source_cid, and every push has exactly one await_push
\* whose source_cid is its cid.
C3_PushAwaitPaired ==
    /\ \A a \in OfKind(cdag, "AWAIT_PUSH") :
          Cardinality({p \in OfKind(cdag, "PUSH") : p = cdag.commands[a].data.source_cid}) = 1
    /\ \A p \in OfKind(cdag, "PUSH") :
          Cardinality({a \in OfKind(cdag, "AWAIT_PUSH") :
                          cdag.commands[a].data.source_cid = p}) = 1

\* The generator has finished a graph holding transfers to two different nodes.
C3_Witness ==
    /\ build_done
    /\ \E p, q \in OfKind(cdag, "PUSH") :
          cdag.commands[p].data.target # cdag.commands[q].data.target

\* The commands whose label records a write of index i of buffer bid.
WritersOf(g, bid, i) ==
    {c \in DOMAIN g.commands : \E w \in g.commands[c].writes : w[1] = bid /\ i \in w[2]}

\* C5 as stated: for every written index of every buffer, the buffer state's node set
\* is exactly the node of the most recent (highest cid) write command covering it.
C5_LastWriteCommand ==
    \A bid \in Buffers : \A i \in Indices :
        WritersOf(cdag, bid, i) # {}
            => valid_buffer_regions[bid][i] =
                   {cdag.commands[Max(WritersOf(cdag, bid, i))].nid}

\* C5 amended: for every written index of every buffer, the buffer state's node set
\* holds exactly one node, and that node executed a write command covering the index
\* that belongs to the most recent task that wrote the index.
C5_WriterOfLastTask ==
    \A bid \in Buffers : \A i \in Indices :
        LET writers == WritersOf(cdag, bid, i)
            last    == Max({cdag.commands[c].tid : c \in writers})
        IN  writers # {}
                => \E c \in writers :
                      /\ cdag.commands[c].tid = last
                      /\ valid_buffer_regions[bid][i] = {cdag.commands[c].nid}

\* An index written by two tasks, the later one writing it on another node.
C5_Witness ==
    \E bid \in Buffers : \E i \in Indices :
        \E c, d \in WritersOf(cdag, bid, i) :
            /\ cdag.commands[c].tid < cdag.commands[d].tid
            /\ cdag.commands[c].nid # cdag.commands[d].nid
            /\ valid_buffer_regions[bid][i] = {cdag.commands[d].nid}

\* C8: every dependency edge of a generated graph goes from a command to a command
\* with a strictly smaller cid.
C8_EdgesTargetSmallerCid ==
    \A e \in Edges(cdag) : e[2] < e[1]

\* ------------------------------- claims of the dispatcher and of the executors
\* C2: on every node, whenever the executor starts the job of a command (its first
\* update), the job of every command it depends on has reported done before.
C2_StartedAfterDependencies ==
    \A c \in DOMAIN trace.started :
        \A d \in cdag.commands[c].dependencies : d.cid \in trace.started[c]

\* The shutdown packages in a queue of command packages.
Shutdowns(queue) == {i \in DOMAIN queue : queue[i].cmd = "SHUTDOWN"}

\* C6: once the dispatcher has run, every node, the master included, is sent exactly
\* one shutdown command and receives it at most once, and an executor that has left
\* its loop has received shutdown and holds no job.
C6_ShutdownDrain ==
    \A n \in DOMAIN exec :
        /\ build_done => Cardinality(Shutdowns(cmd_queue[n])) + exec[n].shutdowns = 1
        /\ exec[n].exited => /\ exec[n].done
                              /\ exec[n].shutdowns = 1
                              /\ jobs[n] = <<>>

\* Every executor of a run on several nodes has left its loop, a worker after
\* running a job to its end.
C6_Witness ==
    /\ num_nodes > 1
    /\ \A n \in DOMAIN exec : exec[n].exited
    /\ \E c \in trace.finished : cdag.commands[c].nid # 0

\* C7: once the dispatcher has run, every non-nop command of the graph has been
\* shipped exactly once, over the transport when its node is not 0 and into the
\* master's queue when it is, and no nop command has been shipped.
C7_ShippedExactlyOnce ==
    build_done =>
        \A c \in DOMAIN cdag.commands :
            LET entries == {i \in DOMAIN trace.shipped : trace.shipped[i].cid = c}
            IN  IF cdag.commands[c].kind = "NOP" THEN entries = {}
                ELSE /\ Cardinality(entries) = 1
                     /\ \A i \in entries :
                           /\ trace.shipped[i].to = cdag.commands[c].nid
                           /\ trace.shipped[i].via = IF cdag.commands[c].nid # 0
                                                     THEN "transport" ELSE "local"
\* ------------------------------ SpecSplit: the split of a compute task into chunks
\* The compute tasks of one to three dimensions, by their global size.
SplitTasks ==
    {[type |-> "COMPUTE", dimensions |-> Len(gs), global_size |-> gs] :
        gs \in UNION {[1 .. d -> 1 .. MaxRange] : d \in 1 .. 3}}

InitSplit ==
    /\ BtmIdle
    /\ RunIdle
    /\ failed = FALSE
    /\ cdag = EmptyGraph({})
    /\ num_nodes \in 1 .. MaxSplitNodes
    /\ task_graph \in {<<tsk>> : tsk \in SplitTasks}
    /\ valid_buffer_regions = <<>>
    /\ build_done = FALSE
    /\ task_chunks = <<>>
    /\ ndebug = FALSE

\* The head of process_compute_task<Dims>: the task's whole global range is split
\* into one chunk per worker node; the split of three dimensions throws.
SplitComputeTask ==
    /\ ~failed /\ task_chunks = <<>>
    /\ LET ctsk       == task_graph[1]
           num_chunks == Max({num_nodes - 1, 1})
           sr         == [start |-> [d \in 1 .. ctsk.dimensions |-> 0],
                          range |-> ctsk.global_size,
                          global_size |-> ctsk.global_size]
       IN  /\ failed' = (ctsk.dimensions = 3)
           /\ task_chunks' = IF ctsk.dimensions = 1 THEN split_equal_1(sr, num_chunks)
                        ELSE IF ctsk.dimensions = 2 THEN split_equal_2(sr, num_chunks)
                        ELSE task_chunks
    /\ UNCHANGED <<btmVars, cdag, num_nodes, task_graph, valid_buffer_regions, build_done,
                   ndebug, runVars>>

NextSplit == SplitComputeTask

SpecSplit == InitSplit /\ [][NextSplit]_vars

\* The items (index tuples) of the subrange from start with extent range.
ItemsOf(start, range) ==
    {it \in [DOMAIN start -> 0 .. MaxRange + 1] :
        \A d \in DOMAIN start : start[d] <= it[d] /\ it[d] < start[d] + range[d]}

\* C11: the chunks a 1-D or 2-D compute task is split into are pairwise disjoint and
\* their union is the task's global range, for every number of nodes, also when the
\* range is not divisible by the number of chunks or is smaller than it.
C11_ExactPartition ==
    task_chunks # <<>> =>
        /\ \A i, j \in DOMAIN task_chunks :
               i # j => ItemsOf(task_chunks[i].start, task_chunks[i].range)
                            \cap ItemsOf(task_chunks[j].start, task_chunks[j].range) = {}
        /\ UNION {ItemsOf(task_chunks[i].start, task_chunks[i].range) : i \in DOMAIN task_chunks}
               = ItemsOf([d \in DOMAIN task_graph[1].global_size |-> 0],
                         task_graph[1].global_size)

\* A 2-D task has been split into more chunks than it has rows.
C11_Witness ==
    /\ task_chunks # <<>>
    /\ task_graph[1].dimensions = 2
    /\ task_graph[1].global_size[1] < Len(task_chunks)
    /\ task_graph[1].global_size[2] > 1
\* ------------------- SpecOverwrite: the generator on tasks with one accessor each
\* The tasks of TaskShapes that access one buffer in one mode.
SingleAccessShapes(tid) ==
    {tsk \in TaskShapes(tid) : Cardinality(tsk.accesses) = 1}

\* build_command_graph obtains the next satisfied task, a task with one accessor.
BuildSingleAccessTask ==
    /\ ~failed /\ ~build_done
    /\ Len(task_graph) < MaxChain
    /\ \E tsk \in SingleAccessShapes(Len(task_graph)) : BuildTask(tsk)

NextOverwrite == BuildSingleAccessTask \/ BuildFinished

SpecOverwrite == InitGen /\ [][NextOverwrite]_vars

\* The push commands the step creates.
NewPushes == OfKind(cdag', "PUSH") \ DOMAIN cdag.commands

\* C12: every push command the generator emits for a box is on a node of the box's
\* source set in the buffer state the reading task is processed in, and targets the
\* node that executes the reading chunk (the command that waits for its await_push).
C12_PushFromSource ==
    [][\A p \in NewPushes :
          LET cmd == cdag'.commands[p]
          IN  /\ cmd.data.box # {}
              /\ \A i \in cmd.data.box :
                     cmd.nid \in valid_buffer_regions[cmd.data.bid][i]
              /\ \E e \in OfKind(cdag', "COMPUTE") \cup OfKind(cdag', "MASTER_ACCESS") :
                     /\ cdag'.commands[e].tid = Len(task_graph)
                     /\ cdag'.commands[e].nid = cmd.data.target
                     /\ \E d \in cdag'.commands[e].dependencies :
                            /\ cdag'.commands[d.cid].kind = "AWAIT_PUSH"
                            /\ cdag'.commands[d.cid].nid = cmd.data.target
                            /\ cdag'.commands[d.cid].data.source_cid = p]_vars

\* Index i was written on node 1 by one task and on node 2 by a later task, and a
\* still later reader on node 0 has got its push of i from node 2.
C12_Witness ==
    \E bid \in Buffers : \E i \in Indices :
        \E a, c \in WritersOf(cdag, bid, i) : \E p \in OfKind(cdag, "PUSH") :
            /\ cdag.commands[a].tid < cdag.commands[c].tid
            /\ cdag.commands[a].nid = 1 /\ cdag.commands[c].nid = 2
            /\ p > c
            /\ cdag.commands[p].data.bid = bid /\ i \in cdag.commands[p].data.box
            /\ cdag.commands[p].nid = 2 /\ cdag.commands[p].data.target = 0
            /\ \A q \in OfKind(cdag, "PUSH") :
                   (q > c /\ i \in cdag.commands[q].data.box) => cdag.commands[q].nid # 1
\* The indices of buffer bid that the commands of task tid write in graph g.
WrittenBy(g, tid, bid) ==
    UNION {w[2] : w \in {v \in UNION {g.commands[c].writes :
                                         c \in {x \in DOMAIN g.commands :
                                                    g.commands[x].tid = tid}} :
                             v[1] = bid}}

\* C13: processing a task leaves the buffer state of every index the task does not
\* write unchanged; a node that receives a region through a push / await-push pair
\* is not added to the region's source-node set.
C13_ReadsLeaveBufferState ==
    [][\A bid \in Buffers : \A i \in Indices :
          i \notin WrittenBy(cdag', Len(task_graph), bid)
              => valid_buffer_regions'[bid][i] = valid_buffer_regions[bid][i]]_vars

\* A box has been pushed to the node that reads it, and the buffer state of the box
\* still names the pushing node only.
C13_Witness ==
    \E p \in OfKind(cdag, "PUSH") :
        /\ cdag.commands[p].data.box # {}
        /\ cdag.commands[p].data.target # cdag.commands[p].nid
        /\ \A i \in cdag.commands[p].data.box :
               valid_buffer_regions[cdag.commands[p].data.bid][i] = {cdag.commands[p].nid}
\* C14: with one node, every compute task the generator has processed is split into
\* exactly one chunk (it has one compute command), every execution command is on
\* node 0, and the graph holds no push and no await_push command; a task sequence in
\* which every read region was written by an earlier task is processed completely
\* (the generator fails only on a task that reads an index never written or that
\* accesses no buffer).
C14_SingleNode ==
    num_nodes = 1 =>
        /\ \A tid \in DOMAIN cdag.by_task : Len(cdag.by_task[tid]) = 1
        /\ \A c \in DOMAIN cdag.commands : cdag.commands[c].nid = 0
        /\ OfKind(cdag, "PUSH") \cup OfKind(cdag, "AWAIT_PUSH") = {}
        /\ ~failed => DOMAIN cdag.by_task = {k - 1 : k \in DOMAIN task_graph}
        /\ failed =>
               \/ task_graph[Len(task_graph)].accesses = {}
               \/ \E a \in task_graph[Len(task_graph)].accesses :
                      a.mode = "read" /\ \E i \in Indices : valid_buffer_regions[a.bid][i] = {}

\* With one node, a compute task that reads what an earlier compute task wrote has
\* been processed.
C14_Witness ==
    /\ num_nodes = 1 /\ ~failed /\ build_done
    /\ \E c, d \in OfKind(cdag, "COMPUTE") :
          /\ cdag.commands[c].tid < cdag.commands[d].tid
          /\ cdag.commands[c].writes # {}
          /\ \E a \in task_graph[cdag.commands[d].tid + 1].accesses : a.mode = "read"
\* C15: for a compute task that accesses no buffer the generator completes without
\* failing and emits exactly one compute command per chunk, none of which waits for
\* an await_push.
C15_NoAccessTask ==
    \A k \in DOMAIN task_graph :
        (task_graph[k].type = "COMPUTE" /\ task_graph[k].accesses = {})
            => /\ k = Len(task_graph) => ~failed
               /\ (k - 1) \in DOMAIN cdag.by_task
               /\ Len(cdag.by_task[k - 1]) = Max({num_nodes - 1, 1})
               /\ \A j \in DOMAIN cdag.by_task[k - 1] :
                      \A d \in cdag.commands[cdag.by_task[k - 1][j]].dependencies :
                          cdag.commands[d.cid].kind # "AWAIT_PUSH"
\* C16: max_pseudo_critical_path_length never decreases in a create, add_dependency
\* or remove_dependency call, and after the call it is at least the pseudo-critical-
\* path length of every command, the depender of an add_dependency included.
C16_MaxPathMonotone ==
    [][/\ cdag'.max_pseudo_critical_path_length >= cdag.max_pseudo_critical_path_length
       /\ \A c \in DOMAIN cdag'.commands :
              cdag'.max_pseudo_critical_path_length
                  >= cdag'.commands[c].pseudo_critical_path_length]_vars

\* A dependency has been removed: the maximum has stayed, and is larger than the
\* length of a command that still has a dependency.
C16_Witness ==
    /\ cdag.max_pseudo_critical_path_length = MaxPath
    /\ \E c, d \in DOMAIN cdag.commands :
          /\ cdag.commands[c].dependencies = {}
          /\ cdag.commands[d].dependencies # {}
          /\ cdag.commands[d].pseudo_critical_path_length
                 < cdag.max_pseudo_critical_path_length
\* C17: an await_push called before poll has observed the completed receipt of the
\* transfer carrying its source_cid is no error; until that receipt is observed the
\* handle it returned is not complete and holds no transfer, the blackboard maps
\* source_cid to that handle, and nothing has been written to buffer storage for it.
C17_AwaitBeforeData ==
    \A n \in DOMAIN jobs : \A i \in PostedAwaits(n) :
        LET P == jobs[n][i].pkg.source_cid
            h == jobs[n][i].handle
        IN  P \notin btm[n].observed =>
                /\ ~failed
                /\ h \in DOMAIN btm[n].handles
                /\ ~btm[n].handles[h].complete
                /\ btm[n].handles[h].transfer = NoTransfer
                /\ ~jobs[n][i].done
                /\ P \in DOMAIN btm[n].push_blackboard
                /\ btm[n].push_blackboard[P] = h
                /\ WritesFor(n, P) = 0

\* An await_push has been posted while the transfer it waits for is in flight, sent
\* but not yet observed as received.
C17_Witness ==
    \E n \in DOMAIN jobs : \E i \in PostedAwaits(n) :
        /\ jobs[n][i].pkg.source_cid \notin btm[n].observed
        /\ jobs[n][i].pkg.source_cid \in DOMAIN btm[n].push_blackboard
        /\ \/ \E m \in Arrived(n) : m.header.push_cid = jobs[n][i].pkg.source_cid
           \/ \E k \in DOMAIN btm[n].incoming_transfers :
                  btm[n].incoming_transfers[k].push_cid = jobs[n][i].pkg.source_cid
\* The push_cids of the transfers of SpecBTM.
PushCids == 1 .. MaxPush

\* await_push has been called at node n with source_cid P.
AwaitPosted(n, P) == \E i \in PostedAwaits(n) : jobs[n][i].pkg.source_cid = P

\* C18: a transfer whose completed receipt poll has observed while no await_push for
\* its push_cid has been posted is parked in the blackboard under that push_cid,
\* with a complete handle holding the transfer, and its data is not written; buffer
\* storage holds a write for a push_cid only if both the receipt has been observed
\* and the await_push has been posted.
C18_ParkedUntilAwaited ==
    \A n \in DOMAIN btm : \A P \in PushCids :
        /\ (P \in btm[n].observed /\ ~AwaitPosted(n, P)) =>
               /\ P \in DOMAIN btm[n].push_blackboard
               /\ btm[n].handles[btm[n].push_blackboard[P]].complete
               /\ btm[n].handles[btm[n].push_blackboard[P]].transfer # NoTransfer
               /\ btm[n].handles[btm[n].push_blackboard[P]].transfer.push_cid = P
               /\ WritesFor(n, P) = 0
        /\ WritesFor(n, P) > 0 => (P \in btm[n].observed /\ AwaitPosted(n, P))

\* A transfer is parked: received and observed, its await_push not yet posted.
C18_Witness ==
    \E n \in DOMAIN btm : \E P \in PushCids :
        /\ P \in btm[n].observed
        /\ ~AwaitPosted(n, P)
        /\ P \in DOMAIN btm[n].push_blackboard
        /\ \E i \in DOMAIN jobs[n] :
               jobs[n][i].pkg.cmd = "AWAIT_PUSH" /\ jobs[n][i].pkg.source_cid = P
\* C19: the shutdown package is the last package dispatched to every node: no
\* command package is behind a shutdown package in a node's queue (the transport to
\* a worker, master_commands for node 0), so with in-order delivery an executor that
\* has set done has no package left to receive.
C19_ShutdownLast ==
    \A n \in DOMAIN cmd_queue :
        /\ \A k \in Shutdowns(cmd_queue[n]) : k = Len(cmd_queue[n])
        /\ exec[n].done => cmd_queue[n] = <<>>

\* A worker has set done after it had received a command and started its job.
C19_Witness ==
    \E n \in DOMAIN exec :
        /\ n # 0
        /\ exec[n].done
        /\ \E c \in DOMAIN trace.started : cdag.commands[c].nid = n
\* The execution commands the step creates.
NewExecutionCmds ==
    (OfKind(cdag', "COMPUTE") \cup OfKind(cdag', "MASTER_ACCESS")) \ DOMAIN cdag.commands

\* The region of buffer bid that the chunk of execution command cmd of task tsk reads.
ReadRegion(tsk, cmd, bid) ==
    UNION {map_1(a.rm, [start |-> IF cmd.data.box = {} THEN 0
                                  ELSE CHOOSE i \in cmd.data.box :
                                           \A j \in cmd.data.box : i <= j,
                        range |-> IF cmd.kind = "MASTER_ACCESS" THEN BufSize
                                  ELSE Cardinality(cmd.data.box)]) :
              a \in {x \in tsk.accesses : x.bid = bid /\ x.mode = "read"}}

\* The await_push commands that execution command e of graph g waits for and that,
\* with the push they name, transfer box of buffer bid to the node of e.
TransfersFor(g, e, bid, box) ==
    {d.cid : d \in {x \in g.commands[e].dependencies :
                       /\ g.commands[x.cid].kind = "AWAIT_PUSH"
                       /\ g.commands[x.cid].nid = g.commands[e].nid
                       /\ g.commands[x.cid].data.bid = bid
                       /\ g.commands[x.cid].data.box = box
                       /\ g.commands[x.cid].data.source_cid \in OfKind(g, "PUSH")
                       /\ g.commands[g.commands[x.cid].data.source_cid].data.bid = bid
                       /\ g.commands[g.commands[x.cid].data.source_cid].data.box = box
                       /\ g.commands[g.commands[x.cid].data.source_cid].data.target
                              = g.commands[e].nid}}

\* The boxes to transfer in the step: <<command, buffer, position in the source
\* cover>> for every box of a new command's read whose sources lack its node.
BoxesToTransfer ==
    {t \in NewExecutionCmds \X Buffers \X (1 .. BufSize) :
        \E cover \in {get_source_nodes(valid_buffer_regions[t[2]],
                                       ReadRegion(task_graph'[Len(task_graph')],
                                                  cdag'.commands[t[1]], t[2]))} :
            t[3] \in DOMAIN cover /\ cdag'.commands[t[1]].nid \notin cover[t[3]].nodes}

\* C20: for every chunk of a processed task, every buffer it reads and every box of
\* the buffer's source cover, the generator emits one push / await_push pair for the
\* box if the chunk's node is not in the box's source set and none if it is, and it
\* emits no other push.
C20_PushIffNotSource ==
    [][cdag' # cdag =>
          /\ \A e \in NewExecutionCmds : \A bid \in Buffers :
                 \E cover \in {get_source_nodes(valid_buffer_regions[bid],
                                                ReadRegion(task_graph'[Len(task_graph')],
                                                           cdag'.commands[e], bid))} :
                     \A k \in DOMAIN cover :
                         Cardinality(TransfersFor(cdag', e, bid, cover[k].box))
                             = IF cdag'.commands[e].nid \in cover[k].nodes THEN 0 ELSE 1
          /\ Cardinality(NewPushes) = Cardinality(BoxesToTransfer)]_vars

\* A chunk has read a whole buffer of which one box is valid on its node and another
\* box is not: its command waits for one transfer, that of the second box.
C20_Witness ==
    \E e \in OfKind(cdag, "COMPUTE") :
        /\ \E a \in task_graph[cdag.commands[e].tid + 1].accesses :
               a.mode = "read" /\ a.rm = "all"
        /\ Cardinality({d \in cdag.commands[e].dependencies :
                            cdag.commands[d.cid].kind = "AWAIT_PUSH"}) = 1
        /\ \E d \in cdag.commands[e].dependencies :
               /\ cdag.commands[d.cid].kind = "AWAIT_PUSH"
               /\ cdag.commands[d.cid].data.box # {}
               /\ Indices \ cdag.commands[d.cid].data.box # {}
               /\ \A i \in Indices \ cdag.commands[d.cid].data.box :
                      valid_buffer_regions[cdag.commands[d.cid].data.bid][i]
                          = {cdag.commands[e].nid}
\* ------------------------- SpecTwoBuffers: the generator on tasks over two buffers
\* Compute tasks without predecessors that hold at most one accessor per buffer.
TwoBufferShapes ==
    {tsk \in [type : {"COMPUTE"}, accesses : AccessSets, preds : {{}}] :
        \A a, b \in tsk.accesses : a.bid = b.bid => a = b}

InitTwoBuffers ==
    /\ BtmIdle
    /\ RunIdle
    /\ failed = FALSE
    /\ num_nodes \in 1 .. MaxNodes
    /\ cdag = EmptyGraph(0 .. (num_nodes - 1))
    /\ task_graph = <<>>
    /\ valid_buffer_regions = [bid \in {0, 1} |-> EmptyBufferState]
    /\ build_done = FALSE
    /\ task_chunks = <<>>
    /\ ndebug = FALSE

\* build_command_graph obtains the next satisfied task, a task over two buffers.
BuildTwoBufferTask ==
    /\ ~failed /\ ~build_done
    /\ Len(task_graph) < MaxTwoBufferTasks
    /\ \E tsk \in TwoBufferShapes : BuildTask(tsk)

NextTwoBuffers == BuildTwoBufferTask \/ BuildFinished

SpecTwoBuffers == InitTwoBuffers /\ [][NextTwoBuffers]_vars

\* The smallest element of a set of nodes.
Min(S) == CHOOSE x \in S : \A y \in S : x <= y

\* The compute commands the step creates for the task it processes, in chunk order.
NewChunkCmds ==
    IF Len(task_graph) \in DOMAIN cdag'.by_task /\ Len(task_graph) \notin DOMAIN cdag.by_task
    THEN cdag'.by_task[Len(task_graph)] ELSE <<>>

\* The buffers of which the chunk of the new command e reads a region.
BuffersRead(e) ==
    {bid \in Buffers :
        ReadRegion(task_graph'[Len(task_graph')], cdag'.commands[e], bid) # {}}

\* The nodes still free when the chunk at position j of the new task is assigned.
FreeNodesAt(j) ==
    {n \in 0 .. Max({num_nodes - 1, 1}) : num_nodes = 1 \/ n # 0}
        \ {cdag'.commands[NewChunkCmds[k]].nid : k \in 1 .. (j - 1)}

\* The buffers in the requirement map of the chunks of the task the step processes.
BuffersAccessed == {a.bid : a \in task_graph'[Len(task_graph')].accesses}

ReadAndWritten(e, bid) ==
    ReadRegion(task_graph'[Len(task_graph')], cdag'.commands[e], bid)
        \cap UNION {w[2] : w \in {v \in cdag'.commands[e].writes : v[1] = bid}}

\* The new execution commands that write index i of buffer bid.
NewWriters(bid, i) ==
    {e \in NewExecutionCmds : \E w \in cdag'.commands[e].writes : w[1] = bid /\ i \in w[2]}

PushHandles(js) ==
    {js[i].handle : i \in {k \in DOMAIN js : js[k].pkg.cmd = "PUSH" /\ js[k].started}}

\* The handles of the transfers in the outgoing list of manager state b.
OutgoingHandles(b) ==
    {b.outgoing_transfers[i].handle : i \in DOMAIN b.outgoing_transfers}

\* C23: the handle push returns is not complete and its transfer is in the outgoing
\* list; a push handle is incomplete exactly as long as its transfer is in the
\* outgoing list; it becomes complete in a poll (a step that changes no job), the
\* step that removes its transfer from the list; and a complete handle stays
\* complete.
C23_PushHandleCompletion ==
    [][\A n \in BtmNodes :
          /\ \A h \in PushHandles(jobs'[n]) \ PushHandles(jobs[n]) :
                 /\ ~btm'[n].handles[h].complete
                 /\ h \notin DOMAIN btm[n].handles
                 /\ h \in OutgoingHandles(btm'[n])
          /\ \A h \in PushHandles(jobs[n]) :
                 /\ h \in PushHandles(jobs'[n])
                 /\ btm[n].handles[h].complete <=> h \notin OutgoingHandles(btm[n])
                 /\ btm'[n].handles[h].complete <=> h \notin OutgoingHandles(btm'[n])
                 /\ btm[n].handles[h].complete => btm'[n].handles[h].complete
                 /\ (~btm[n].handles[h].complete /\ btm'[n].handles[h].complete)
                        => (jobs' = jobs /\ h \in OutgoingHandles(btm[n])
                                        /\ h \notin OutgoingHandles(btm'[n]))]_vars

\* A poll has seen the send of a push complete: the handle the push job holds is
\* complete and out of the outgoing list, before the job has asked for it.
C23_Witness ==
    \E n \in BtmNodes : \E i \in DOMAIN jobs[n] :
        /\ jobs[n][i].pkg.cmd = "PUSH"
        /\ jobs[n][i].started /\ ~jobs[n][i].done
        /\ btm[n].handles[jobs[n][i].handle].complete
        /\ jobs[n][i].handle \notin OutgoingHandles(btm[n])

\* ------------------------------ SpecOrder: the traversal of a whole task graph
\* The compute tasks of the traversed graphs: each writes buffer 0 chunk by chunk.
\* processed is the mark that mark_task_as_processed sets in the task graph.
OrderTask(preds) ==
    [type |-> "COMPUTE",
     accesses |-> {[bid |-> 0, mode |-> "write", rm |-> "one_to_one"]},
     preds |-> preds, processed |-> FALSE]

RECURSIVE Ancestors(_, _, _)
\* The tasks that reach a task of S over at most k predecessor edges of tg.
Ancestors(tg, S, k) ==
    IF k = 0 THEN S
    ELSE Ancestors(tg, S \cup UNION {tg[t + 1].preds : t \in S}, k - 1)

\* The finite acyclic task graphs of up to MaxOrderTasks tasks (the empty one too).
TaskGraphs ==
    UNION {{tg \in [1 .. n -> {OrderTask(P) : P \in SUBSET (0 .. (n - 1))}] :
               \A t \in 0 .. (n - 1) :
                   t \notin Ancestors(tg, tg[t + 1].preds, n)} :
           n \in 0 .. MaxOrderTasks}

\* graph_utils::get_satisfied_task: the tasks it may return, those not processed
\* whose predecessors are all processed.
SatisfiedTasks(tg) ==
    {t \in 0 .. (Len(tg) - 1) :
        /\ ~tg[t + 1].processed
        /\ \A q \in tg[t + 1].preds : tg[q + 1].processed}

InitOrder ==
    /\ BtmIdle
    /\ RunIdle
    /\ failed = FALSE
    /\ num_nodes \in 1 .. MaxNodes
    /\ cdag = EmptyGraph(0 .. (num_nodes - 1))
    /\ task_graph \in TaskGraphs
    /\ valid_buffer_regions = [bid \in {0} |-> EmptyBufferState]
    /\ build_done = FALSE
    /\ task_chunks = <<>>
    /\ ndebug \in BOOLEAN

\* build_command_graph from queue->get_task(tid) on: the task is processed and
\* marked, the buffer states are updated and get_satisfied_task decides whether the
\* function calls itself.
ProcessTask(tid) ==
    /\ \E r \in {build_command_graph(cdag, tid, task_graph, num_nodes,
                                     valid_buffer_regions)} :
         LET ok == /\ r.ok
                   /\ \A e \in Edges(r.cdag) : add_dependency_allowed(r.cdag, e[1], e[2])
         IN  /\ failed' = ~ok
             /\ IF ok
                THEN /\ cdag' = r.cdag
                     /\ task_graph' = [task_graph EXCEPT ![tid + 1].processed = TRUE]
                     /\ \E orders \in WriterOrders(r.buffer_writers) :
                          valid_buffer_regions' =
                              updated_buffer_regions(valid_buffer_regions,
                                                     r.buffer_writers, orders)
                     /\ build_done' = (SatisfiedTasks(task_graph') = {})
                ELSE UNCHANGED <<cdag, task_graph, valid_buffer_regions, build_done>>
    /\ UNCHANGED <<btmVars, num_nodes, task_chunks, ndebug, runVars>>

\* One invocation of build_command_graph in a build with assertions: the assertion
\* evaluates get_satisfied_task, which stores a satisfied task in tid.
BuildSatisfiedTask ==
    /\ ~ndebug /\ ~failed /\ ~build_done
    /\ \E tid \in SatisfiedTasks(task_graph) : ProcessTask(tid)

\* The assertion on get_satisfied_task fails: no task is satisfied at the first
\* invocation (the task graph is empty).
BuildWithoutTask ==
    /\ ~ndebug /\ ~failed /\ ~build_done
    /\ SatisfiedTasks(task_graph) = {}
    /\ failed' = TRUE
    /\ UNCHANGED <<btmVars, cdag, genVars, runVars>>

\* One invocation of build_command_graph in a build with NDEBUG: the assertion and
\* the call of get_satisfied_task in it are compiled out, tid is read uninitialized
\* and may hold any value: the id of any task, or (Len(task_graph)) of none, for
\* which get_task has no task to return. The number of commands is capped.
BuildUninitializedTask ==
    /\ ndebug /\ ~failed /\ ~build_done
    /\ cdag.next_cmd_id < Len(task_graph) * num_nodes
    /\ \E tid \in 0 .. Len(task_graph) :
         IF tid < Len(task_graph) THEN ProcessTask(tid)
         ELSE /\ failed' = TRUE
              /\ UNCHANGED <<btmVars, cdag, genVars, runVars>>

NextOrder == BuildSatisfiedTask \/ BuildWithoutTask \/ BuildUninitializedTask

SpecOrder == InitOrder /\ [][NextOrder]_vars

\* The tasks a step of build_command_graph marks or emits commands for.
TasksProcessedInStep ==
    {t \in 0 .. (Len(task_graph) - 1) :
        \/ task_graph'[t + 1].processed # task_graph[t + 1].processed
        \/ \E c \in DOMAIN cdag'.commands \ DOMAIN cdag.commands : cdag'.commands[c].tid = t}

\* C24: build_command_graph processes a task only if it was not processed before
\* and all of its predecessor tasks are marked as processed, and when it returns
\* every task of the graph has been processed.
C24_EachTaskOnceAfterPredecessors ==
    [][/\ \A t \in TasksProcessedInStep :
              /\ ~task_graph[t + 1].processed
              /\ \A q \in task_graph[t + 1].preds : task_graph[q + 1].processed
       /\ build_done' => \A k \in DOMAIN task_graph' : task_graph'[k].processed]_vars

\* ------------------- SpecRunFair: SpecRun with the progress the claim assumes
\* What a poll at node n finds when the transport has delivered what was sent and
\* every transfer it tests has completed.
CompletedPollChoices(n) ==
    {<<p, 1 .. (Len(btm[n].incoming_transfers) + 1), 1 .. Len(btm[n].outgoing_transfers)>> :
        p \in IF Arrived(n) = {} THEN {{}} ELSE {{m} : m \in Arrived(n)}}

\* An iteration of the loop at node n in which MPI_Improbe matches a message if one
\* has arrived, MPI_Test reports every transfer complete, every kernel and master
\* access reports done, and MPI_Iprobe finds the command package sent to the node.
ProgressLoop(n) ==
    \E c \in CompletedPollChoices(n) : ExecutorIteration(n, c, ExecutionJobs(n), TRUE)

\* Every node keeps running its loop until it exits.
SpecRunFair ==
    /\ InitRun /\ [][NextRun]_vars
    /\ \A n \in 0 .. (RunNodes - 1) : WF_vars(n \in DOMAIN exec /\ ProgressLoop(n))

ExecShapes ==
    [1 .. MaxPush -> [src : BtmNodes, awaited : BOOLEAN]]

RECURSIVE PackagesFor(_, _, _)
\* The packages of the pairs p .. MaxPush sent to node n, in cid order of the pairs.
PackagesFor(n, shape, p) ==
    IF p > MaxPush THEN <<>>
    ELSE (IF shape[p].src = n THEN <<PushPkg(p, shape[p])>>
          ELSE IF shape[p].awaited THEN <<AwaitPushPkg(p, shape[p])>>
          ELSE <<>>) \o PackagesFor(n, shape, p + 1)

\* The state when the master enters its loop: every package and, last, the shutdown
\* package are in the nodes' queues.
InitExec ==
    /\ num_nodes = 2
    /\ task_graph = <<>>
    /\ cdag = EmptyGraph(BtmNodes)
    /\ valid_buffer_regions = [bid \in {0} |-> EmptyBufferState]
    /\ build_done = TRUE
    /\ task_chunks = <<>>
    /\ ndebug = FALSE
    /\ failed = FALSE
    /\ btm = [n \in BtmNodes |-> EmptyBtm]
    /\ data_net = {}
    /\ jobs = [n \in BtmNodes |-> <<>>]
    /\ exec = [n \in BtmNodes |-> [done |-> FALSE, exited |-> FALSE, shutdowns |-> 0]]
    /\ \E shape \in ExecShapes :
         /\ cmd_queue = [n \in BtmNodes |->
                            Append(PackagesFor(n, shape, 1),
                                   shutdown_pkg(2 * MaxPush + 1 + n))]
         /\ trace = [shipped  |-> [i \in 1 .. Len(PackagesFor(0, shape, 1)
                                                  \o PackagesFor(1, shape, 1)) |->
                                      LET all == [k \in 1 .. Len(PackagesFor(0, shape, 1)) |->
                                                     [pkg |-> PackagesFor(0, shape, 1)[k],
                                                      to |-> 0]]
                                                 \o [k \in 1 .. Len(PackagesFor(1, shape, 1)) |->
                                                        [pkg |-> PackagesFor(1, shape, 1)[k],
                                                         to |-> 1]]
                                      IN  [cid |-> all[i].pkg.cid, to |-> all[i].to,
                                           via |-> IF all[i].to # 0 THEN "transport"
                                                   ELSE "local"]],
                      finished |-> {},
                      started  |-> [c \in {} |-> {}]]

NextExec == \E n \in BtmNodes : ExecutorLoop(n)

SpecExec == InitExec /\ [][NextExec]_vars

\* The cids shipped to node n.
ShippedTo(n) == {trace.shipped[i].cid : i \in {k \in DOMAIN trace.shipped : trace.shipped[k].to = n}}

\* Every push shipped to node n or targeting node n has its await_push shipped.
AllPushesAwaited(n) ==
    \A p \in PushCids :
        (p \in ShippedTo(n) \/ p \in ShippedTo(1 - n))
            => (MaxPush + p) \in ShippedTo(0) \cup ShippedTo(1)

\* C26: when the executor of a node has left its loop and every push shipped to the
\* node or targeting it has its await_push shipped before the shutdown, the node's
\* transfer manager holds no incoming transfer, no outgoing transfer and no
\* blackboard entry.
C26_ManagerEmptyAtExit ==
    \A n \in DOMAIN exec :
        (exec[n].exited /\ AllPushesAwaited(n)) =>
            /\ btm[n].incoming_transfers = <<>>
            /\ btm[n].outgoing_transfers = <<>>
            /\ DOMAIN btm[n].push_blackboard = {}

\* A node has left its loop after it awaited a push, received the transfer and wrote
\* it to the buffer, and after it pushed a region itself.
C26_Witness ==
    \E n \in DOMAIN exec :
        /\ exec[n].exited /\ AllPushesAwaited(n)
        /\ btm[n].buffer_writes # EmptyBag
        /\ \E p \in PushCids : p \in ShippedTo(n) /\ p \in trace.finished

\* C27: every chunk of a compute task with a buffer access gets a node out of a
\* non-empty set of free nodes, a node no earlier chunk of the task has got and,
\* with more than one node, not node 0; the processing of such a task fails only
\* on a read of an index that was never written, never for want of a free node.
C27_DistinctWorkerNodes ==
    [][LET tsk == task_graph'[Len(task_graph')] IN
       (Len(task_graph') = Len(task_graph) + 1 /\ tsk.type = "COMPUTE"
            /\ tsk.accesses # {}) =>
           /\ \A j \in DOMAIN NewChunkCmds :
                  \E nid \in {cdag'.commands[NewChunkCmds[j]].nid} :
                      /\ FreeNodesAt(j) # {}
                      /\ nid \in FreeNodesAt(j)
                      /\ \A k \in 1 .. (j - 1) : cdag'.commands[NewChunkCmds[k]].nid # nid
                      /\ num_nodes > 1 => nid # 0
           /\ ~failed' => Len(NewChunkCmds) = Max({num_nodes - 1, 1})
           /\ failed' => \E a \in tsk.accesses : \E i \in Indices :
                              a.mode = "read" /\ valid_buffer_regions[a.bid][i] = {}]_vars

\* Two chunks of a task read a region held by one node: the first chunk has got that
\* node, the second another worker node and a push from the first chunk's node.
C27_Witness ==
    \E e, f \in OfKind(cdag, "COMPUTE") :
        /\ cdag.commands[e].tid = cdag.commands[f].tid
        /\ e < f
        /\ cdag.commands[e].nid # cdag.commands[f].nid
        /\ cdag.commands[e].nid # 0 /\ cdag.commands[f].nid # 0
        /\ cdag.commands[e].dependencies = {}
        /\ \E d \in cdag.commands[f].dependencies :
               /\ cdag.commands[d.cid].kind = "AWAIT_PUSH"
               /\ cdag.commands[cdag.commands[d.cid].data.source_cid].nid
                      = cdag.commands[e].nid

\* The await-push jobs of node n on which await_push has not been called yet.
UnpostedAwaits(n) ==
    {i \in DOMAIN jobs[n] : jobs[n][i].pkg.cmd = "AWAIT_PUSH" /\ ~jobs[n][i].started}

\* C28: no assertion of await_push has failed, and in every state a blackboard
\* entry is either a waiting handle (no transfer, not complete) or a parked transfer
\* with a complete handle, filed under the transfer's push_cid; an entry that an
\* await_push not yet called would find is a parked transfer whose buffer id and
\* subrange are those of the await_push, so its three assertions hold whenever it
\* is called.
C28_BlackboardEntries ==
    /\ ~failed
    /\ \A n \in DOMAIN btm : \A P \in DOMAIN btm[n].push_blackboard :
           \E entry \in {btm[n].handles[btm[n].push_blackboard[P]]} :
               \/ entry.transfer = NoTransfer /\ ~entry.complete
               \/ /\ entry.transfer # NoTransfer
                  /\ entry.complete
                  /\ entry.transfer.push_cid = P
    /\ \A n \in DOMAIN btm : \A i \in UnpostedAwaits(n) :
           jobs[n][i].pkg.source_cid \in DOMAIN btm[n].push_blackboard =>
               \E entry \in {btm[n].handles[btm[n].push_blackboard[
                                                jobs[n][i].pkg.source_cid]]} :
                   /\ entry.transfer # NoTransfer
                   /\ entry.transfer.bid = jobs[n][i].pkg.bid
                   /\ entry.transfer.subrange = jobs[n][i].pkg.subrange

\* On one node an await_push has been answered from the blackboard or the wire and
\* its data written, while the blackboard holds a parked transfer that the node's
\* other await_push, not yet called, will find.
C28_Witness ==
    \E n \in DOMAIN btm : \E i \in UnpostedAwaits(n) : \E k \in PostedAwaits(n) :
        /\ jobs[n][i].pkg.source_cid \in DOMAIN btm[n].push_blackboard
        /\ btm[n].handles[btm[n].push_blackboard[jobs[n][i].pkg.source_cid]].complete
        /\ btm[n].handles[jobs[n][k].handle].complete
        /\ WritesFor(n, jobs[n][k].pkg.source_cid) = 1
====
